---- MODULE Spec2Model ----
(***************************************************************************)
(* A model of the gtfs-schedule crate: the service-day time value type     *)
(* (schemas/common.rs), the row validators of the schemas, the dataset     *)
(* validator Dataset::validate and the loader Dataset::from_csv            *)
(* (dataset.rs).                                                           *)
(*                                                                         *)
(* Text is modelled as a sequence of one-character strings, so that        *)
(* parsing and formatting are computed the way the code computes them.     *)
(***************************************************************************)
EXTENDS Integers, Sequences, FiniteSets, TLC

VARIABLES
    t_in,        \* the operands handed to an operation of NaiveServiceTime
    t_out,       \* the value that operation returned
    ds,          \* the Dataset handed to validate: a record of its tables
    env,         \* the environment variable validate reads, None when unset
    pc,          \* where the call of validate is: start, stops, walk, done
    pending,     \* the keys of stops the loop over stops has yet to visit
    walk,        \* the stop being visited, current_parent_id, parent_chain
    station_ids, \* the set station_ids of the loop over stops
    result,      \* what validate returned
    dir,         \* the directory handed to from_csv: a set of files
    files,       \* the recognized files from_csv has yet to open
    reader,      \* the file being read and the number of its next record
    loaded,      \* the dataset from_csv is filling
    load_result, \* what from_csv returned
    q_in,        \* the query called on the dataset ds and its stop_id
    q_out        \* what the query returned

timeVars == <<t_in, t_out>>
validateVars == <<ds, env, pc, pending, walk, station_ids, result>>
loadVars == <<dir, files, reader, loaded, load_result>>
queryVars == <<q_in, q_out>>
vars == <<t_in, t_out, ds, env, pc, pending, walk, station_ids, result,
          dir, files, reader, loaded, load_result, q_in, q_out>>

\* The variables of from_csv while no call of it is modelled.
NotLoading ==
    /\ dir = {}
    /\ files = <<>>
    /\ reader = <<>>
    /\ loaded = [tables |-> "none"]
    /\ load_result = [tag |-> "None"]

\* The variables of the queries while no query is modelled.
NotQuerying ==
    /\ q_in = [op |-> "none"]
    /\ q_out = [op |-> "none"]

(***************************************************************************)
(* Text: decimal digits, split(':'), str::parse::<u32>, format!("{:02}")   *)
(***************************************************************************)
Digits == <<"0", "1", "2", "3", "4", "5", "6", "7", "8", "9">>

IsDigit(c) == \E i \in 1..10 : Digits[i] = c

DigitVal(c) == (CHOOSE i \in 1..10 : Digits[i] = c) - 1

\* The parts of s between the occurrences of the separator sep, as
\* str::split gives them: one more part than there are separators.
RECURSIVE SplitFrom(_, _, _, _)
SplitFrom(s, sep, i, cur) ==
    IF i > Len(s) THEN <<cur>>
    ELSE IF s[i] = sep THEN <<cur>> \o SplitFrom(s, sep, i + 1, <<>>)
    ELSE SplitFrom(s, sep, i + 1, Append(cur, s[i]))

Split(s, sep) == SplitFrom(s, sep, 1, <<>>)

RECURSIVE DigitsValue(_, _)
DigitsValue(s, acc) ==
    IF s = <<>> THEN acc ELSE DigitsValue(Tail(s), acc * 10 + DigitVal(Head(s)))

\* str::parse::<u32>: an optional '+' and at least one decimal digit; -1
\* stands for Err(ParseIntError).  The literals of the model are short, so
\* the value never leaves the u32 range.
ParseU32(s) ==
    LET body == IF s # <<>> /\ Head(s) = "+" THEN Tail(s) ELSE s
    IN  IF body = <<>> \/ \E i \in 1..Len(body) : ~IsDigit(body[i])
        THEN -1
        ELSE DigitsValue(body, 0)

RECURSIVE FormatDec(_)
FormatDec(n) ==
    IF n < 10 THEN <<Digits[n + 1]>>
    ELSE Append(FormatDec(n \div 10), Digits[(n % 10) + 1])

\* format!("{:02}", n): zero-padded to a width of at least two.
Pad2(n) == IF n < 10 THEN <<"0">> \o FormatDec(n) ELSE FormatDec(n)

(***************************************************************************)
(* Option and Result values                                                *)
(***************************************************************************)
None == <<>>
Some(v) == <<v>>
is_some(o) == o # <<>>
is_none(o) == o = <<>>
unwrap(o) == o[1]

Ok(v) == [tag |-> "Ok", val |-> v]
Err(e) == [tag |-> "Err", val |-> e]
Panic(msg) == [tag |-> "Panic", msg |-> msg]
OkUnit == [tag |-> "Ok"]

(***************************************************************************)
(* chrono::NaiveTime and chrono::NaiveDate, as far as the crate uses them  *)
(***************************************************************************)
\* NaiveTime::from_hms_opt: None outside 0..23, 0..59, 0..59.
from_hms_opt(h, m, s) ==
    IF h \in 0..23 /\ m \in 0..59 /\ s \in 0..59
    THEN Some([hour |-> h, minute |-> m, second |-> s])
    ELSE None

\* The order of NaiveTime: by seconds since midnight.
num_seconds_from_midnight(t) == t.hour * 3600 + t.minute * 60 + t.second

(***************************************************************************)
(* NaiveServiceTime                                                        *)
(***************************************************************************)
NaiveServiceTime(time, overflow) == [time |-> time, overflow |-> overflow]

\* impl TryFrom<&str> for NaiveServiceTime.  parts[1] and parts[2] are
\* indexed without a length check: fewer than three parts is a panic.
try_from(s) ==
    LET parts == Split(s, ":")
    IN  IF ParseU32(parts[1]) = -1 THEN Err("ParseError")
        ELSE IF Len(parts) < 2 THEN Panic("index out of bounds")
        ELSE IF ParseU32(parts[2]) = -1 THEN Err("ParseError")
        ELSE IF Len(parts) < 3 THEN Panic("index out of bounds")
        ELSE IF ParseU32(parts[3]) = -1 THEN Err("ParseError")
        ELSE LET hours == ParseU32(parts[1])
                 minutes == ParseU32(parts[2])
                 seconds == ParseU32(parts[3])
                 overflow == hours >= 24
                 time == from_hms_opt(hours % 24, minutes, seconds)
             IN  IF is_none(time) THEN Err("InvalidValue")
                 ELSE Ok(NaiveServiceTime(unwrap(time), overflow))

\* impl From<NaiveServiceTime> for String.
StringFrom(service_time) ==
    LET overflow_time == IF service_time.overflow THEN service_time.time
                         ELSE unwrap(from_hms_opt(0, 0, 0))
        hours == service_time.time.hour + overflow_time.hour
        minutes == service_time.time.minute + overflow_time.minute
        seconds == service_time.time.second + overflow_time.second
    IN  Pad2(hours) \o <<":">> \o Pad2(minutes) \o <<":">> \o Pad2(seconds)

\* impl PartialEq for NaiveServiceTime.
eq(self, other) == self.time = other.time /\ self.overflow = other.overflow

\* impl Ord for NaiveServiceTime.
cmp(self, other) ==
    IF self.time.hour < other.time.hour THEN "Less"
    ELSE IF self.time.hour > other.time.hour THEN "Greater"
    ELSE IF self.time.minute < other.time.minute THEN "Less"
    ELSE IF self.time.minute > other.time.minute THEN "Greater"
    ELSE IF self.time.second < other.time.second THEN "Less"
    ELSE IF self.time.second > other.time.second THEN "Greater"
    ELSE "Equal"

\* impl Add<Duration> for NaiveServiceTime; rhs is Duration::as_secs.
add(self, rhs) ==
    LET self_as_secs == self.time.hour * 3600 + self.time.minute * 60
                            + self.time.second
        sum == rhs + self_as_secs
        hours == sum \div 3600
        minutes == (sum \div 60) % 60
        seconds == sum % 60
        overflow == hours >= 24
        time == unwrap(from_hms_opt(hours % 24, minutes, seconds))
    IN  NaiveServiceTime(time, overflow)

(***************************************************************************)
(* Errors (error.rs): the three arms carry a kind, the field and the       *)
(* snapshots of the offending records                                      *)
(***************************************************************************)
SchemaValidationError(kind, field, schema) ==
    Err([arm |-> "Schema", kind |-> kind, field |-> field,
         records |-> <<schema>>])

DatasetValidationError(kind, field, schema_instances) ==
    Err([arm |-> "Dataset", kind |-> kind, field |-> field,
         records |-> schema_instances])

(***************************************************************************)
(* Row validators of the schemas.  An identifier is a string, is_empty its *)
(* emptiness test; an optional field is None or Some(value); distances and *)
(* prices are integers.                                                    *)
(***************************************************************************)
is_empty(id) == id = ""

\* PartialOrd of f32 on the distances of shapes and the measures of
\* pathways: a whole number or NaN (written as a number no distance of the
\* model takes), and every comparison with NaN is false.
NaN == 1000

f32_lt(a, b) == a # NaN /\ b # NaN /\ a < b

f32_le(a, b) == a # NaN /\ b # NaN /\ a <= b

\* Stop::validate without its rule on the parent_station of a station.
StopValidateWithoutStationRule(self) ==
    IF /\ self.location_type \in
            {Some("StopOrPlatform"), Some("Station"), Some("EntranceOrExit")}
       /\ (is_none(self.stop_name) \/ is_none(self.stop_coord))
    THEN SchemaValidationError("missing-value", "stop_name", self)
    ELSE IF /\ self.location_type \in
                 {Some("EntranceOrExit"), Some("GenericNode"), Some("BoardingArea")}
            /\ is_none(self.parent_station)
    THEN SchemaValidationError("missing-value", "parent_station", self)
    ELSE OkUnit

\* Stop::validate
StopValidate(self) ==
    IF /\ self.location_type \in
            {Some("StopOrPlatform"), Some("Station"), Some("EntranceOrExit")}
       /\ is_none(self.stop_name)
    THEN SchemaValidationError("missing-value", "stop_name", self)
    ELSE IF /\ self.location_type \in
                 {Some("StopOrPlatform"), Some("Station"), Some("EntranceOrExit")}
            /\ is_none(self.stop_coord)
    THEN SchemaValidationError("missing-value", "stop_coord", self)
    ELSE IF /\ self.location_type \in
                 {Some("EntranceOrExit"), Some("GenericNode"), Some("BoardingArea")}
            /\ is_none(self.parent_station)
    THEN SchemaValidationError("missing-value", "parent_station", self)
    ELSE IF /\ self.location_type = Some("Station")
            /\ is_some(self.parent_station)
    THEN SchemaValidationError("forbidden-value", "parent_station", self)
    ELSE OkUnit

\* Route::validate
RouteValidate(self) ==
    IF is_empty(self.route_id)
    THEN SchemaValidationError("missing-value", "route_id", self)
    ELSE IF is_none(self.route_short_name) /\ is_none(self.route_long_name)
    THEN SchemaValidationError("missing-value",
                               "route_short_name or route_long_name", self)
    ELSE OkUnit

\* Trip::validate
TripValidate(self) ==
    IF is_empty(self.route_id)
    THEN SchemaValidationError("missing-value", "route_id", self)
    ELSE IF is_empty(self.service_id)
    THEN SchemaValidationError("missing-value", "service_id", self)
    ELSE IF is_empty(self.trip_id)
    THEN SchemaValidationError("missing-value", "trip_id", self)
    ELSE OkUnit

has_window(self) ==
    \/ is_some(self.start_pickup_drop_off_window)
    \/ is_some(self.end_pickup_drop_off_window)

StopTimeDefaultedWithTimepoint(self) ==
    IF has_window(self)
    THEN [self EXCEPT
            !.pickup_type =
                IF @ \in {Some("RegularlyScheduled"),
                          Some("MustCoordinateWithDriver")} THEN None ELSE @,
            !.drop_off_type =
                IF @ = Some("RegularlyScheduled") THEN None ELSE @]
    ELSE [self EXCEPT
            !.pickup_type =
                IF is_some(@) THEN @ ELSE Some("RegularlyScheduled"),
            !.drop_off_type =
                IF is_some(@) THEN @ ELSE Some("RegularlyScheduled"),
            !.timepoint = IF is_some(@) THEN @ ELSE Some("Exact")]

\* The assignments StopTime::validate makes to pickup_type and drop_off_type
\* (stop_time.rs 342-364).
StopTimeDefaulted(self) ==
    IF has_window(self)
    THEN [self EXCEPT
            !.pickup_type =
                IF @ \in {Some("RegularlyScheduled"),
                          Some("MustCoordinateWithDriver")} THEN None ELSE @,
            !.drop_off_type =
                IF @ = Some("RegularlyScheduled") THEN None ELSE @]
    ELSE [self EXCEPT
            !.pickup_type =
                IF is_some(@) THEN @ ELSE Some("RegularlyScheduled"),
            !.drop_off_type =
                IF is_some(@) THEN @ ELSE Some("RegularlyScheduled")]

\* StopTime::validate(&mut self): the result, and the record as the call
\* leaves it.
StopTimeValidate(self) ==
    IF is_empty(self.trip_id)
    THEN [res |-> SchemaValidationError("missing-value", "trip_id", self),
          rec |-> self]
    ELSE IF /\ is_some(self.stop_id)
            /\ (is_some(self.location_group_id) \/ is_some(self.location_id))
    THEN [res |-> SchemaValidationError("forbidden-value",
                      "location_group_id and/or location_id", self),
          rec |-> self]
    ELSE IF is_some(self.location_group_id) /\ is_some(self.location_id)
    THEN [res |-> SchemaValidationError("forbidden-value",
                      "location_group_id or location_id", self),
          rec |-> self]
    ELSE IF /\ is_none(self.stop_id)
            /\ is_none(self.location_group_id)
            /\ is_none(self.location_id)
    THEN [res |-> SchemaValidationError("missing-value",
                      "stop_id, location_group_id, or location_id", self),
          rec |-> self]
    ELSE IF is_some(self.shape_dist_traveled)
            /\ f32_lt(unwrap(self.shape_dist_traveled), 0)
    THEN [res |-> SchemaValidationError("invalid-value",
                      "shape_dist_traveled", self),
          rec |-> self]
    ELSE IF /\ has_window(self)
            /\ (is_some(self.arrival_time) \/ is_some(self.departure_time))
    THEN [res |-> SchemaValidationError("forbidden-value",
                      "arrival_time or departure_time", self),
          rec |-> self]
    ELSE IF /\ ~has_window(self)
            /\ self.timepoint = Some("Exact")
            /\ (is_none(self.arrival_time) \/ is_none(self.departure_time))
    THEN [res |-> SchemaValidationError("missing-value",
                      "arrival_time or departure_time", self),
          rec |-> self]
    ELSE IF /\ has_window(self)
            /\ (is_some(self.continuous_pickup)
                    \/ is_some(self.continuous_drop_off))
    THEN [res |-> SchemaValidationError("forbidden-value",
                      "continuous_pickup or continuous_drop_off",
                      StopTimeDefaulted(self)),
          rec |-> StopTimeDefaulted(self)]
    ELSE [res |-> OkUnit, rec |-> StopTimeDefaulted(self)]

\* Calendar::validate; a date is the number YYYYMMDD, ordered as dates are.
CalendarValidate(self) ==
    IF is_empty(self.service_id)
    THEN SchemaValidationError("missing-value", "service_id", self)
    ELSE IF self.start_date > self.end_date
    THEN SchemaValidationError("invalid-value", "start_date", self)
    ELSE OkUnit

\* CalendarDate::validate
CalendarDateValidate(self) ==
    IF is_empty(self.service_id)
    THEN SchemaValidationError("missing-value", "service_id", self)
    ELSE OkUnit

\* FareAttribute::validate
FareAttributeValidate(self) ==
    IF is_empty(self.fare_id)
    THEN SchemaValidationError("missing-value", "fare_id", self)
    ELSE IF self.price < 0
    THEN SchemaValidationError("invalid-value", "price", self)
    ELSE OkUnit

\* Timeframe::validate; start_time and end_time are Option<NaiveTime>.
TimeframeValidate(self) ==
    IF is_empty(self.timeframe_group_id)
    THEN SchemaValidationError("missing-value", "timeframe_group_id", self)
    ELSE IF is_empty(self.service_id)
    THEN SchemaValidationError("missing-value", "service_id", self)
    ELSE IF is_some(self.start_time) /\ is_none(self.end_time)
    THEN SchemaValidationError("missing-value", "end_time", self)
    ELSE IF is_some(self.end_time) /\ is_none(self.start_time)
    THEN SchemaValidationError("missing-value", "start_time", self)
    ELSE IF /\ is_some(self.start_time)
            /\ is_some(self.end_time)
            /\ num_seconds_from_midnight(unwrap(self.start_time))
                  > num_seconds_from_midnight(unwrap(self.end_time))
    THEN SchemaValidationError("invalid-value", "start_time or end_time", self)
    ELSE OkUnit

\* Shape::validate
ShapeValidate(self) ==
    IF is_empty(self.shape_id)
    THEN SchemaValidationError("missing-value", "shape_id", self)
    ELSE IF is_some(self.shape_dist_traveled)
            /\ f32_lt(unwrap(self.shape_dist_traveled), 0)
    THEN SchemaValidationError("invalid-value", "shape_dist_traveled", self)
    ELSE OkUnit

\* Frequency::validate
FrequencyValidate(self) ==
    IF is_empty(self.trip_id)
    THEN SchemaValidationError("missing-value", "trip_id", self)
    ELSE IF cmp(self.start_time, self.end_time) = "Greater"
    THEN SchemaValidationError("invalid-value", "start_time or end_time", self)
    ELSE IF /\ self.exact_times = Some("Exact")
            /\ cmp(add(self.start_time, self.headway_secs), self.end_time)
                  \in {"Greater", "Equal"}
    THEN SchemaValidationError("invalid-value", "end_time", self)
    ELSE OkUnit

\* Level::validate
LevelValidate(self) ==
    IF is_empty(self.level_id)
    THEN SchemaValidationError("missing-value", "level_id", self)
    ELSE OkUnit

\* Translation::validate
TranslationValidate(self) ==
    IF is_empty(self.field_name)
    THEN SchemaValidationError("missing-value", "field_name", self)
    ELSE IF is_empty(self.translation)
    THEN SchemaValidationError("missing-value", "translation", self)
    ELSE IF self.table_name = "FeedInfo"
    THEN IF \/ is_some(self.record_id)
            \/ is_some(self.record_sub_id)
            \/ is_some(self.field_value)
         THEN SchemaValidationError("forbidden-value",
                  "record_id, record_sub_id, or field_value", self)
         ELSE OkUnit
    ELSE IF is_none(self.record_id) /\ is_none(self.field_value)
    THEN SchemaValidationError("missing-value",
                               "record_id and/or field_value", self)
    ELSE IF is_some(self.record_id) /\ is_some(self.field_value)
    THEN SchemaValidationError("forbidden-value",
                               "record_id and field_value", self)
    ELSE IF /\ is_some(self.record_id)
            /\ self.table_name = "StopTimes"
            /\ is_none(self.record_sub_id)
    THEN SchemaValidationError("missing-value", "record_sub_id", self)
    ELSE OkUnit

\* FeedInfo::validate
FeedInfoValidate(self) ==
    IF is_empty(self.feed_publisher_name)
    THEN SchemaValidationError("missing-value", "feed_publisher_name", self)
    ELSE IF /\ is_some(self.feed_start_date)
            /\ is_some(self.feed_end_date)
            /\ unwrap(self.feed_start_date) > unwrap(self.feed_end_date)
    THEN SchemaValidationError("invalid-value",
                               "feed_start_date or feed_end_date", self)
    ELSE OkUnit

\* Agency::validate
AgencyValidate(self) ==
    IF is_some(self.agency_id) /\ is_empty(unwrap(self.agency_id))
    THEN SchemaValidationError("missing-value", "agency_id", self)
    ELSE OkUnit

\* FareTransferRule::validate
FareTransferRuleValidate(self) ==
    IF /\ is_some(self.transfer_count)
       /\ self.from_leg_group_id # self.to_leg_group_id
    THEN SchemaValidationError("invalid-value", "transfer_count", self)
    ELSE IF /\ is_none(self.transfer_count)
            /\ self.from_leg_group_id = self.to_leg_group_id
    THEN SchemaValidationError("forbidden-value", "transfer_count", self)
    ELSE IF is_some(self.duration_limit_type) /\ is_none(self.duration_limit)
    THEN SchemaValidationError("missing-value", "duration_limit", self)
    ELSE IF is_some(self.duration_limit) /\ is_none(self.duration_limit_type)
    THEN SchemaValidationError("missing-value", "duration_limit_type", self)
    ELSE OkUnit

\* Pathway::validate
PathwayValidate(self) ==
    IF is_empty(self.pathway_id)
    THEN SchemaValidationError("missing-value", "pathway_id", self)
    ELSE IF is_empty(self.from_stop_id) \/ is_empty(self.to_stop_id)
    THEN SchemaValidationError("missing-value", "from_stop_id or to_stop_id",
                               self)
    ELSE IF self.pathway_mode = "ExitGate" /\ self.is_bidirectional
    THEN SchemaValidationError("invalid-value", "is_bidirectional", self)
    ELSE IF is_some(self.length) /\ f32_lt(unwrap(self.length), 0)
    THEN SchemaValidationError("invalid-value", "length", self)
    ELSE IF is_some(self.min_width) /\ f32_lt(unwrap(self.min_width), 0)
    THEN SchemaValidationError("invalid-value", "min_width", self)
    ELSE OkUnit

\* LocationGroup::validate
LocationGroupValidate(self) ==
    IF is_empty(self.location_group_id)
    THEN SchemaValidationError("missing-value", "location_group_id", self)
    ELSE OkUnit

\* LocationGroupStop::validate
LocationGroupStopValidate(self) ==
    IF is_empty(self.location_group_id)
    THEN SchemaValidationError("missing-value", "location_group_id", self)
    ELSE IF is_empty(self.stop_id)
    THEN SchemaValidationError("missing-value", "stop_id", self)
    ELSE OkUnit

\* BookingRule::validate (booking_rule.rs 125-270)
BookingRuleValidate(self) ==
    IF is_empty(self.booking_rule_id)
    THEN SchemaValidationError("missing-value", "booking_rule_id", self)
    ELSE IF /\ self.booking_type = "SameDayWithNotice"
            /\ is_none(self.prior_notice_duration_min)
    THEN SchemaValidationError("missing-value", "prior_notice_duration_min",
                               self)
    ELSE IF /\ self.booking_type # "SameDayWithNotice"
            /\ is_some(self.prior_notice_duration_min)
    THEN SchemaValidationError("forbidden-value", "prior_notice_duration_min",
                               self)
    ELSE IF /\ self.booking_type \in {"RealTime", "PriorDaysWithNotice"}
            /\ is_some(self.prior_notice_duration_max)
    THEN SchemaValidationError("forbidden-value", "prior_notice_duration_max",
                               self)
    ELSE IF /\ self.booking_type = "PriorDaysWithNotice"
            /\ is_none(self.prior_notice_last_day)
    THEN SchemaValidationError("missing-value", "prior_notice_last_day", self)
    ELSE IF /\ self.booking_type # "PriorDaysWithNotice"
            /\ is_some(self.prior_notice_last_day)
    THEN SchemaValidationError("forbidden-value", "prior_notice_last_day", self)
    ELSE IF /\ is_some(self.prior_notice_last_day)
            /\ is_none(self.prior_notice_last_time)
    THEN SchemaValidationError("missing-value", "prior_notice_last_time", self)
    ELSE IF /\ is_none(self.prior_notice_last_day)
            /\ is_some(self.prior_notice_last_time)
    THEN SchemaValidationError("forbidden-value", "prior_notice_last_time",
                               self)
    ELSE IF /\ self.booking_type = "RealTime"
            /\ is_some(self.prior_notice_start_day)
    THEN SchemaValidationError("forbidden-value", "prior_notice_start_day", self)
    ELSE IF /\ self.booking_type = "PriorDaysWithNotice"
            /\ is_some(self.prior_notice_duration_max)
    THEN SchemaValidationError("forbidden-value", "prior_notice_duration_max",
                               self)
    ELSE IF /\ is_some(self.prior_notice_start_day)
            /\ is_none(self.prior_notice_start_time)
    THEN SchemaValidationError("missing-value", "prior_notice_start_time", self)
    ELSE IF /\ is_none(self.prior_notice_start_day)
            /\ is_some(self.prior_notice_start_time)
    THEN SchemaValidationError("forbidden-value", "prior_notice_start_time",
                               self)
    ELSE IF /\ self.booking_type # "PriorDaysWithNotice"
            /\ is_some(self.prior_notice_service_id)
    THEN SchemaValidationError("forbidden-value", "prior_notice_service_id",
                               self)
    ELSE OkUnit

(***************************************************************************)
(* Dataset::validate, the row stage.  A keyed table (DashMap) is a         *)
(* function from its keys to its records and is iterated in an arbitrary   *)
(* order; a list table (Vec) is a sequence and is iterated front to back.  *)
(* A stage is the set of the outcomes it can produce: a loop that returns  *)
(* on the first failing record of an arbitrary order can return the error  *)
(* of any failing record.                                                  *)
(***************************************************************************)
Values(table) == { table[k] : k \in DOMAIN table }

Elems(list) == { list[i] : i \in 1..Len(list) }

\* for record in table.iter() { Body(record)? }
ForEach(records, Body(_)) ==
    LET failures == { Body(r) : r \in records } \ {OkUnit}
    IN  IF failures = {} THEN {OkUnit} ELSE failures

\* for record in &list { Body(record)? }
ForEachInOrder(list, Body(_)) ==
    LET failing == { i \in 1..Len(list) : Body(list[i]) # OkUnit }
    IN  IF failing = {} THEN {OkUnit}
        ELSE { Body(list[CHOOSE i \in failing : \A j \in failing : i <= j]) }

\* first?; second
AndThen(first, second) ==
    (first \ {OkUnit}) \cup (IF OkUnit \in first THEN second ELSE {})

\* The row loops that run before the loop over stop_times (dataset.rs
\* 260-273).
RowsBeforeStopTimes(d) ==
    AndThen(ForEach(Values(d.stops), StopValidate),
    AndThen(ForEach(Values(d.routes), RouteValidate),
            ForEach(Values(d.trips), TripValidate)))

\* The row loops that run after it (dataset.rs 279-369), for the tables of
\* the model.  No loop runs over agencies (dataset.rs 259-260) nor over
\* fare_transfers.
RowsAfterStopTimes(d) ==
    AndThen(ForEach(Values(d.calendar), CalendarValidate),
    AndThen(ForEach(Values(d.calendar_dates), CalendarDateValidate),
    AndThen(ForEach(Values(d.fare_attributes), FareAttributeValidate),
    AndThen(ForEachInOrder(d.timeframes, TimeframeValidate),
    AndThen(ForEach(Values(d.shapes), ShapeValidate),
    AndThen(ForEach(Values(d.frequencies), FrequencyValidate),
    AndThen(ForEach(Values(d.pathways), PathwayValidate),
    AndThen(ForEach(Values(d.levels), LevelValidate),
    AndThen(ForEach(Values(d.location_groups), LocationGroupValidate),
    AndThen(ForEachInOrder(d.location_groups_stops, LocationGroupStopValidate),
    AndThen(ForEach(Values(d.booking_rules), BookingRuleValidate),
    AndThen(ForEachInOrder(d.translations, TranslationValidate),
            IF is_some(d.feed_info)
            THEN {FeedInfoValidate(unwrap(d.feed_info))}
            ELSE {OkUnit}))))))))))))

\* The loop over stop_times.iter_mut() (dataset.rs 275-277): the records
\* visited keep the values validate assigned to them, the others are left
\* as they were.  The result is the set of pairs of an outcome and the table
\* the loop leaves.
StopTimeRows(stop_times) ==
    LET keys == DOMAIN stop_times
        failing == { k \in keys : StopTimeValidate(stop_times[k]).res # OkUnit }
    IN  IF failing = {}
        THEN { [res |-> OkUnit,
                stop_times |->
                    [ k \in keys |-> StopTimeValidate(stop_times[k]).rec ]] }
        ELSE { [res |-> StopTimeValidate(stop_times[f]).res,
                stop_times |->
                    [ k \in keys |->
                        IF k = f \/ k \in visited
                        THEN StopTimeValidate(stop_times[k]).rec
                        ELSE stop_times[k] ]] :
               f \in failing, visited \in SUBSET (keys \ failing) }

\* The whole row stage (dataset.rs 254-369).
RowStage(d) ==
    IF OkUnit \notin RowsBeforeStopTimes(d)
    THEN { [res |-> e, stop_times |-> d.stop_times] :
           e \in RowsBeforeStopTimes(d) }
    ELSE LET rows == StopTimeRows(d.stop_times)
             after == [d EXCEPT !.stop_times =
                          (CHOOSE r \in rows : TRUE).stop_times]
         IN  IF \E r \in rows : r.res # OkUnit
             THEN rows
             ELSE { [res |-> e, stop_times |-> after.stop_times] :
                    e \in RowsAfterStopTimes(after) }

(***************************************************************************)
(* Dataset::validate, the agencies (dataset.rs 375-427)                    *)
(***************************************************************************)
RECURSIVE AgenciesFromWithoutUniqueness(_, _, _, _)
AgenciesFromWithoutUniqueness(agencies, i, agency_ids, agency_timezone) ==
    IF i > Len(agencies) THEN OkUnit
    ELSE LET agency == agencies[i] IN
         IF is_none(agency.agency_id)
         THEN DatasetValidationError("missing-value", "agency_id", <<agency>>)
         ELSE IF /\ is_some(agency_timezone)
                 /\ agency_timezone # Some(agency.agency_timezone)
         THEN DatasetValidationError("inconsistent-value", "agency_timezone",
                                     <<agency>>)
         ELSE AgenciesFromWithoutUniqueness(agencies, i + 1,
                  agency_ids \cup {agency.agency_id},
                  Some(agency.agency_timezone))

\* The loop over the agencies from the i-th on, with the identifiers seen
\* and the timezone of the first agency.
RECURSIVE AgenciesFrom(_, _, _, _)
AgenciesFrom(agencies, i, agency_ids, agency_timezone) ==
    IF i > Len(agencies) THEN OkUnit
    ELSE LET agency == agencies[i] IN
         IF is_none(agency.agency_id)
         THEN DatasetValidationError("missing-value", "agency_id", <<agency>>)
         ELSE IF agency.agency_id \in agency_ids
         THEN DatasetValidationError("primary-key-not-unique", "agency_id",
                  SelectSeq(agencies,
                            LAMBDA a : a.agency_id = agency.agency_id))
         ELSE IF /\ is_some(agency_timezone)
                 /\ agency_timezone # Some(agency.agency_timezone)
         THEN DatasetValidationError("inconsistent-value", "agency_timezone",
                                     <<agency>>)
         ELSE AgenciesFrom(agencies, i + 1,
                           agency_ids \cup {agency.agency_id},
                           Some(agency.agency_timezone))

AgencyStage(d) ==
    IF Len(d.agencies) > 1
    THEN {AgenciesFrom(d.agencies, 1, {}, None)}
    ELSE {OkUnit}

(***************************************************************************)
(* Dataset::validate, one stop of the loop over stops (dataset.rs 436-504) *)
(***************************************************************************)
StopAfterWalkWithoutStationTest(d, stop, stations) ==
    IF /\ is_some(stop.level_id)
       /\ ~\E level \in Values(d.levels) : level.level_id = unwrap(stop.level_id)
    THEN DatasetValidationError("foreign-key-not-found", "level_id", <<stop>>)
    ELSE OkUnit

\* The checks made on a stop once its parent chain has been walked
\* (dataset.rs 471-502).
StopAfterWalk(d, stop, stations) ==
    IF /\ is_some(stop.level_id)
       /\ ~\E level \in Values(d.levels) : level.level_id = unwrap(stop.level_id)
    THEN DatasetValidationError("foreign-key-not-found", "level_id", <<stop>>)
    ELSE IF /\ (stop.location_type = Some("StopOrPlatform")
                    \/ is_none(stop.location_type))
            /\ is_some(stop.parent_station)
            /\ unwrap(stop.parent_station) \notin stations
    THEN DatasetValidationError("foreign-key-not-found", "parent_station",
                                <<stop>>)
    ELSE OkUnit

(***************************************************************************)
(* Dataset::validate, routes, trips and stop_times (dataset.rs 515-705)    *)
(***************************************************************************)
trip_get_all_from_route(d, route_id) ==
    { trip \in Values(d.trips) : trip.route_id = route_id }

stop_times_get_all_from_trip(d, trip_id) ==
    { stop_time \in Values(d.stop_times) : stop_time.trip_id = trip_id }

stop_times_get_all_from_route(d, route_id) ==
    UNION { stop_times_get_all_from_trip(d, trip.trip_id) :
            trip \in trip_get_all_from_route(d, route_id) }

RouteCheck(d, route) ==
    IF /\ is_some(route.agency_id)
       /\ Len(d.agencies) > 1
       /\ ~\E agency \in Elems(d.agencies) : agency.agency_id = route.agency_id
    THEN DatasetValidationError("foreign-key-not-found", "agency_id", <<route>>)
    ELSE IF /\ (is_some(route.continuous_pickup)
                    \/ is_some(route.continuous_drop_off))
            /\ \E stop_time \in stop_times_get_all_from_route(d, route.route_id) :
                    has_window(stop_time)
    THEN DatasetValidationError("inconsistent-value",
             "continuous_pickup or continuous_drop_off", <<route>>)
    ELSE IF is_some(route.network_id) /\ DOMAIN d.routes_networks # {}
    THEN DatasetValidationError("inconsistent-value", "network_id", <<route>>)
    ELSE OkUnit

RoutesStage(d) == ForEach(Values(d.routes), LAMBDA route : RouteCheck(d, route))

TripCheck(d, trip) ==
    IF /\ is_none(trip.shape_id)
       /\ \/ \E route \in Values(d.routes) :
                is_some(route.continuous_pickup)
                    \/ is_some(route.continuous_drop_off)
          \/ \E stop_time \in Values(d.stop_times) : has_window(stop_time)
    THEN DatasetValidationError("missing-value", "shape_id", <<trip>>)
    ELSE IF trip.route_id \notin DOMAIN d.routes
    THEN DatasetValidationError("foreign-key-not-found", "route_id", <<trip>>)
    ELSE IF /\ trip.service_id \notin DOMAIN d.calendar
            /\ ~\E calendar_date \in Values(d.calendar_dates) :
                    calendar_date.service_id = trip.service_id
    THEN DatasetValidationError("foreign-key-not-found", "service_id", <<trip>>)
    ELSE OkUnit

TripsStage(d) == ForEach(Values(d.trips), LAMBDA trip : TripCheck(d, trip))

\* Ord of String on the identifiers of the model: the byte order of these
\* texts is their order in this list.
IdsInByteOrder == <<"", "t1", "t2", "t9">>

StringCmp(a, b) ==
    LET rank(id) == CHOOSE i \in 1..Len(IdsInByteOrder) : IdsInByteOrder[i] = id
    IN  IF rank(a) < rank(b) THEN "Less"
        ELSE IF rank(a) > rank(b) THEN "Greater" ELSE "Equal"

\* Ord of Option<NaiveServiceTime>: None is below every Some.
OptionCmp(a, b) ==
    IF is_none(a) /\ is_none(b) THEN "Equal"
    ELSE IF is_none(a) THEN "Less"
    ELSE IF is_none(b) THEN "Greater"
    ELSE cmp(unwrap(a), unwrap(b))

\* The comparator handed to sort_by (dataset.rs 644-648).
StopTimeCmp(a, b) ==
    IF StringCmp(a.trip_id, b.trip_id) # "Equal"
    THEN StringCmp(a.trip_id, b.trip_id)
    ELSE OptionCmp(a.arrival_time, b.arrival_time)

\* What the stable sort of an arbitrarily ordered collection can return:
\* every arrangement that is ordered by the comparator.
SortedStopTimes(d) ==
    LET records == Values(d.stop_times)
        n == Cardinality(records)
    IN  { sorted \in [1..n -> records] :
            /\ \A i, j \in 1..n : i # j => sorted[i] # sorted[j]
            /\ \A i, j \in 1..n :
                  i < j => StopTimeCmp(sorted[i], sorted[j]) # "Greater" }

\* The loop over sorted_stop_times (dataset.rs 650-704); the two maps hold
\* the last value pushed for each trip.
RECURSIVE StopTimesFrom(_, _, _, _, _)
StopTimesFrom(d, sorted, i, last_sequence, last_distance) ==
    IF i > Len(sorted) THEN OkUnit
    ELSE LET stop_time == sorted[i]
             trip_id == stop_time.trip_id
         IN
         IF trip_id \notin DOMAIN d.trips
         THEN DatasetValidationError("foreign-key-not-found", "trip_id",
                                     <<stop_time>>)
         ELSE IF /\ is_some(stop_time.stop_id)
                 /\ unwrap(stop_time.stop_id) \notin DOMAIN d.stops
         THEN DatasetValidationError("foreign-key-not-found", "stop_id",
                                     <<stop_time>>)
         ELSE IF /\ trip_id \in DOMAIN last_sequence
                 /\ stop_time.stop_sequence <= last_sequence[trip_id]
         THEN DatasetValidationError("inconsistent-value", "stop_sequence",
                                     <<stop_time>>)
         ELSE IF /\ is_some(stop_time.shape_dist_traveled)
                 /\ trip_id \in DOMAIN last_distance
                 /\ f32_le(unwrap(stop_time.shape_dist_traveled),
                           last_distance[trip_id])
         THEN DatasetValidationError("inconsistent-value",
                                     "shape_dist_traveled", <<stop_time>>)
         ELSE StopTimesFrom(d, sorted, i + 1,
                  [ t \in DOMAIN last_sequence \cup {trip_id} |->
                      IF t = trip_id THEN stop_time.stop_sequence
                      ELSE last_sequence[t] ],
                  IF is_some(stop_time.shape_dist_traveled)
                  THEN [ t \in DOMAIN last_distance \cup {trip_id} |->
                           IF t = trip_id
                           THEN unwrap(stop_time.shape_dist_traveled)
                           ELSE last_distance[t] ]
                  ELSE last_distance)

StopTimesStage(d) ==
    { StopTimesFrom(d, sorted, 1, <<>>, <<>>) : sorted \in SortedStopTimes(d) }

(***************************************************************************)
(* Dataset::validate, calendar, fare_attributes, timeframes, shapes and    *)
(* frequencies (dataset.rs 715-1248)                                       *)
(***************************************************************************)
\* bool::from_str(&v).unwrap_or(true) on the text of the variable
\* __TEST__IGNORE_MISSING_CALENDAR_DATES, false when it is not set.
ignore_missing_calendar_dates(variable) ==
    IF is_none(variable) THEN FALSE
    ELSE IF unwrap(variable) = "true" THEN TRUE
    ELSE IF unwrap(variable) = "false" THEN FALSE
    ELSE TRUE

CalendarStage(d, variable) ==
    IF DOMAIN d.calendar # {} THEN {OkUnit}
    ELSE LET unique_service_ids ==
                 { calendar_date.service_id :
                   calendar_date \in Values(d.calendar_dates) }
         IN  IF /\ unique_service_ids = {}
                /\ ~ignore_missing_calendar_dates(variable)
             THEN {DatasetValidationError("missing-value",
                       "calendar.txt and calendar_dates.txt", <<>>)}
             ELSE ForEach(Values(d.trips), LAMBDA trip :
                     IF trip.service_id \notin unique_service_ids
                     THEN DatasetValidationError("foreign-key-not-found",
                              "service_id", <<trip>>)
                     ELSE OkUnit)

FareAttributeCheck(d, fare_attribute) ==
    IF Len(d.agencies) <= 1 THEN OkUnit
    ELSE IF is_none(fare_attribute.agency_id)
    THEN DatasetValidationError("missing-value", "agency_id",
                                <<fare_attribute>>)
    ELSE IF ~\E agency \in Elems(d.agencies) :
                agency.agency_id = fare_attribute.agency_id
    THEN DatasetValidationError("foreign-key-not-found", "agency_id",
                                <<fare_attribute>>)
    ELSE OkUnit

FareAttributesStage(d) ==
    ForEach(Values(d.fare_attributes),
            LAMBDA fare_attribute : FareAttributeCheck(d, fare_attribute))

\* The test of dataset.rs 917 on two timeframes that have both endpoints;
\* NaiveTime is ordered by its seconds from midnight.
IntervalsOverlap(timeframe1, timeframe2) ==
    LET start1 == num_seconds_from_midnight(unwrap(timeframe1.start_time))
        end1 == num_seconds_from_midnight(unwrap(timeframe1.end_time))
        start2 == num_seconds_from_midnight(unwrap(timeframe2.start_time))
        end2 == num_seconds_from_midnight(unwrap(timeframe2.end_time))
    IN  \/ (start1 < end2 /\ end1 > start2)
        \/ (start2 < end1 /\ end2 > start1)

\* The pairs (i, j), i before j, of one group that the inner loops report.
OverlappingPairs(d) ==
    { pair \in (1..Len(d.timeframes)) \X (1..Len(d.timeframes)) :
        LET timeframe1 == d.timeframes[pair[1]]
            timeframe2 == d.timeframes[pair[2]]
        IN  /\ pair[1] < pair[2]
            /\ timeframe1.timeframe_group_id = timeframe2.timeframe_group_id
            /\ timeframe1.service_id = timeframe2.service_id
            /\ is_some(timeframe1.start_time) /\ is_some(timeframe1.end_time)
            /\ is_some(timeframe2.start_time) /\ is_some(timeframe2.end_time)
            /\ IntervalsOverlap(timeframe1, timeframe2) }

\* Within a group the pairs are visited in order, so the pair reported for
\* a group is its first one; the groups are visited in an arbitrary order.
FirstPairsOfGroups(d) ==
    { pair \in OverlappingPairs(d) :
        \A other \in OverlappingPairs(d) :
            (/\ d.timeframes[other[1]].timeframe_group_id
                    = d.timeframes[pair[1]].timeframe_group_id
             /\ d.timeframes[other[1]].service_id
                    = d.timeframes[pair[1]].service_id)
            => \/ pair[1] < other[1]
               \/ (pair[1] = other[1] /\ pair[2] <= other[2]) }

TimeframesStage(d) ==
    LET valid_service_ids ==
            { calendar.service_id : calendar \in Values(d.calendar) }
            \cup { calendar_date.service_id :
                   calendar_date \in Values(d.calendar_dates) }
    IN  AndThen(
            ForEachInOrder(d.timeframes, LAMBDA timeframe :
                IF timeframe.service_id \notin valid_service_ids
                THEN DatasetValidationError("foreign-key-not-found",
                         "service_id", <<timeframe>>)
                ELSE OkUnit),
            IF FirstPairsOfGroups(d) = {} THEN {OkUnit}
            ELSE { DatasetValidationError("overlapping-intervals", "",
                       <<d.timeframes[pair[1]], d.timeframes[pair[2]]>>) :
                   pair \in FirstPairsOfGroups(d) })

\* The points of a shape that carry a distance, and the windows of two
\* consecutive ones by shape_pt_sequence whose distance does not increase.
ShapesStage(d) ==
    LET measured == { shape \in Values(d.shapes) :
                          is_some(shape.shape_dist_traveled) }
        consecutive(prev, curr) ==
            /\ prev.shape_id = curr.shape_id
            /\ prev.shape_pt_sequence < curr.shape_pt_sequence
            /\ ~\E mid \in measured :
                    /\ mid.shape_id = prev.shape_id
                    /\ prev.shape_pt_sequence < mid.shape_pt_sequence
                    /\ mid.shape_pt_sequence < curr.shape_pt_sequence
        failing == { w \in measured \X measured :
                        /\ consecutive(w[1], w[2])
                        /\ f32_le(unwrap(w[2].shape_dist_traveled),
                                  unwrap(w[1].shape_dist_traveled)) }
        first == { w \in failing :
                      \A v \in failing :
                          v[1].shape_id = w[1].shape_id
                          => w[1].shape_pt_sequence <= v[1].shape_pt_sequence }
    IN  IF first = {} THEN {OkUnit}
        ELSE { DatasetValidationError("inconsistent-value",
                   "shape_dist_traveled", <<w[1], w[2]>>) : w \in first }

FrequenciesStage(d) ==
    ForEach(Values(d.frequencies), LAMBDA frequency :
        IF frequency.trip_id \notin DOMAIN d.trips
        THEN DatasetValidationError("foreign-key-not-found", "trip_id",
                                    <<frequency>>)
        ELSE OkUnit)

(***************************************************************************)
(* Dataset::validate, fare_transfers, pathways, location_groups and        *)
(* location_groups_stops (dataset.rs 1072-1123, 1336-1425, 1436-1497)      *)
(***************************************************************************)
FareTransferCheck(d, fare_transfer_rule) ==
    LET valid_leg_group_ids ==
            { unwrap(rule.leg_group_id) :
              rule \in { r \in Elems(d.fare_leg_rules) :
                            is_some(r.leg_group_id) } }
    IN
    IF /\ is_some(fare_transfer_rule.from_leg_group_id)
       /\ unwrap(fare_transfer_rule.from_leg_group_id) \notin valid_leg_group_ids
    THEN DatasetValidationError("foreign-key-not-found", "from_leg_group_id",
                                <<fare_transfer_rule>>)
    ELSE IF /\ is_some(fare_transfer_rule.to_leg_group_id)
            /\ unwrap(fare_transfer_rule.to_leg_group_id)
                  \notin valid_leg_group_ids
    THEN DatasetValidationError("foreign-key-not-found", "to_leg_group_id",
                                <<fare_transfer_rule>>)
    ELSE IF /\ is_some(fare_transfer_rule.fare_product_id)
            /\ ~\E fare_product \in Values(d.fare_products) :
                    fare_product.fare_product_id
                        = unwrap(fare_transfer_rule.fare_product_id)
    THEN DatasetValidationError("foreign-key-not-found", "fare_product_id",
                                <<fare_transfer_rule>>)
    ELSE OkUnit

FareTransfersStage(d) ==
    ForEachInOrder(d.fare_transfers,
                   LAMBDA rule : FareTransferCheck(d, rule))

\* One turn of the loop over pathways (dataset.rs 1337-1424).
PathwayCheck(d, pathway) ==
    LET valid_location_types ==
            {"StopOrPlatform", "Station", "EntranceOrExit", "GenericNode",
             "BoardingArea"}
        unwrap_or(location_type) ==
            IF is_some(location_type) THEN unwrap(location_type)
            ELSE "StopOrPlatform"
    IN
    IF pathway.from_stop_id \notin DOMAIN d.stops
    THEN DatasetValidationError("foreign-key-not-found", "from_stop_id",
                                <<pathway>>)
    ELSE IF pathway.to_stop_id \notin DOMAIN d.stops
    THEN DatasetValidationError("foreign-key-not-found", "to_stop_id",
                                <<pathway>>)
    ELSE IF pathway.pathway_mode = "ExitGate" /\ pathway.is_bidirectional
    THEN DatasetValidationError("inconsistent-value", "is_bidirectional",
                                <<pathway>>)
    ELSE IF unwrap_or(d.stops[pathway.from_stop_id].location_type)
                \notin valid_location_types
    THEN DatasetValidationError("inconsistent-value", "location_type",
             <<pathway, d.stops[pathway.from_stop_id]>>)
    ELSE IF unwrap_or(d.stops[pathway.to_stop_id].location_type)
                \notin valid_location_types
    THEN DatasetValidationError("inconsistent-value", "location_type",
             <<pathway, d.stops[pathway.to_stop_id]>>)
    ELSE IF /\ d.stops[pathway.from_stop_id].location_type = Some("Station")
            /\ d.stops[pathway.to_stop_id].location_type = Some("Station")
            /\ pathway.from_stop_id = pathway.to_stop_id
    THEN DatasetValidationError("inconsistent-value",
                                "from_stop_id and to_stop_id", <<pathway>>)
    ELSE OkUnit

PathwaysStage(d) ==
    ForEach(Values(d.pathways), LAMBDA pathway : PathwayCheck(d, pathway))

\* The identifiers of stops and of location groups are inserted in one set
\* (dataset.rs 1436-1465); an identifier the set already holds is reported
\* on the record that brings it.  The tables are visited in an arbitrary
\* order, so of two records of a table with one identifier either is the
\* one reported.
LocationGroupsStage(d) ==
    LET repeated(table, Id(_)) ==
            { k \in DOMAIN table :
                \E other \in DOMAIN table \ {k} : Id(table[other]) = Id(table[k]) }
        stop_id(stop) == stop.stop_id
        group_id(location_group) == location_group.location_group_id
        stops == repeated(d.stops, stop_id)
        groups == repeated(d.location_groups, group_id)
                  \cup { k \in DOMAIN d.location_groups :
                           \E stop \in Values(d.stops) :
                               stop.stop_id
                                   = d.location_groups[k].location_group_id }
    IN  IF stops # {}
        THEN { DatasetValidationError("primary-key-not-unique", "stop_id",
                                      <<d.stops[k]>>) : k \in stops }
        ELSE IF groups # {}
        THEN { DatasetValidationError("primary-key-not-unique",
                   "location_group_id", <<d.location_groups[k]>>) :
               k \in groups }
        ELSE {OkUnit}

\* dataset.rs 1470-1497
LocationGroupStopsStage(d) ==
    ForEachInOrder(d.location_groups_stops, LAMBDA location_group_stop :
        IF location_group_stop.location_group_id
               \notin DOMAIN d.location_groups
        THEN DatasetValidationError("foreign-key-not-found",
                 "location_group_id", <<location_group_stop>>)
        ELSE IF location_group_stop.stop_id \notin DOMAIN d.stops
        THEN DatasetValidationError("foreign-key-not-found", "stop_id",
                                    <<location_group_stop>>)
        ELSE OkUnit)

\* dataset.rs 1499-1530
BookingRulesStage(d) ==
    LET valid_service_ids ==
            { calendar.service_id : calendar \in Values(d.calendar) }
            \cup { calendar_date.service_id :
                   calendar_date \in Values(d.calendar_dates) }
    IN  ForEach(Values(d.booking_rules), LAMBDA booking_rule :
            IF /\ is_some(booking_rule.prior_notice_service_id)
               /\ unwrap(booking_rule.prior_notice_service_id)
                      \notin valid_service_ids
            THEN DatasetValidationError("foreign-key-not-found",
                     "prior_notice_service_id", <<booking_rule>>)
            ELSE OkUnit)

(***************************************************************************)
(* Dataset::validate, translations and feed_info (dataset.rs 1536-2093),   *)
(* for the tables of the model.  record_id is an identifier; record_sub_id *)
(* is a text, parsed as the table it refers to requires.                   *)
(***************************************************************************)
\* NaiveDate::from_str: year-month-day separated by '-'; a date is the
\* number YYYYMMDD.  None stands for Err.
NaiveDate_from_str(s) ==
    LET parts == Split(s, "-") IN
    IF Len(parts) # 3 THEN None
    ELSE IF \E i \in 1..3 :
                parts[i] = <<>> \/ \E k \in 1..Len(parts[i]) : ~IsDigit(parts[i][k])
    THEN None
    ELSE IF /\ ParseU32(parts[2]) \in 1..12
            /\ ParseU32(parts[3]) \in 1..31
    THEN Some(ParseU32(parts[1]) * 10000 + ParseU32(parts[2]) * 100
                  + ParseU32(parts[3]))
    ELSE None

\* The arm of a table whose records have no sub-identifier.
RecordIdOnly(translation, exists, field) ==
    IF is_some(translation.record_id) /\ ~exists
    THEN DatasetValidationError("foreign-key-not-found", field,
                                <<translation>>)
    ELSE IF is_some(translation.record_sub_id)
    THEN DatasetValidationError("inconsistent-value", "record_sub_id",
                                <<translation>>)
    ELSE OkUnit

\* The arm of TableName::StopTimes (dataset.rs 1641-1670).  The closure
\* handed to any() parses record_sub_id at each call, so a text that does
\* not parse panics as soon as the table has a record.
TranslationOfStopTimes(d, translation) ==
    IF /\ is_some(translation.record_id)
       /\ ~\E stop_time \in Values(d.stop_times) :
              stop_time.trip_id = unwrap(translation.record_id)
    THEN DatasetValidationError("foreign-key-not-found", "trip_id",
                                <<translation>>)
    ELSE IF is_none(translation.record_sub_id) THEN OkUnit
    ELSE IF /\ DOMAIN d.stop_times # {}
            /\ ParseU32(unwrap(translation.record_sub_id)) = -1
    THEN Panic("Could not parse stop_sequence from record_sub_id")
    ELSE IF ~\E stop_time \in Values(d.stop_times) :
                stop_time.stop_sequence
                    = ParseU32(unwrap(translation.record_sub_id))
    THEN DatasetValidationError("foreign-key-not-found", "stop_sequence",
                                <<translation>>)
    ELSE OkUnit

\* The arm of TableName::CalendarDates (dataset.rs 1795-1825).
TranslationOfCalendarDates(d, translation) ==
    IF /\ is_some(translation.record_id)
       /\ ~\E calendar_date \in Values(d.calendar_dates) :
              calendar_date.service_id = unwrap(translation.record_id)
    THEN DatasetValidationError("foreign-key-not-found", "service_id",
                                <<translation>>)
    ELSE IF is_none(translation.record_sub_id) THEN OkUnit
    ELSE IF /\ DOMAIN d.calendar_dates # {}
            /\ is_none(NaiveDate_from_str(unwrap(translation.record_sub_id)))
    THEN Panic("Could not parse NaiveDate from record_sub_id")
    ELSE IF ~\E calendar_date \in Values(d.calendar_dates) :
                Some(calendar_date.date)
                    = NaiveDate_from_str(unwrap(translation.record_sub_id))
    THEN DatasetValidationError("foreign-key-not-found", "date",
                                <<translation>>)
    ELSE OkUnit

\* The arm of TableName::Frequencies (dataset.rs 1910-1940).
TranslationOfFrequencies(d, translation) ==
    IF /\ is_some(translation.record_id)
       /\ ~\E frequency \in Values(d.frequencies) :
              frequency.trip_id = unwrap(translation.record_id)
    THEN DatasetValidationError("foreign-key-not-found", "trip_id",
                                <<translation>>)
    ELSE IF is_none(translation.record_sub_id) THEN OkUnit
    ELSE IF /\ DOMAIN d.frequencies # {}
            /\ try_from(unwrap(translation.record_sub_id)).tag # "Ok"
    THEN Panic("Could not parse NaiveServiceTime from record_sub_id")
    ELSE IF ~\E frequency \in Values(d.frequencies) :
                eq(frequency.start_time,
                   try_from(unwrap(translation.record_sub_id)).val)
    THEN DatasetValidationError("foreign-key-not-found", "start_time",
                                <<translation>>)
    ELSE OkUnit

\* The match on table_name (dataset.rs 1537-1966).
TranslationArm(d, translation) ==
    LET id == unwrap(translation.record_id) IN
    CASE translation.table_name = "Agency" ->
            RecordIdOnly(translation,
                \E agency \in Elems(d.agencies) : agency.agency_id = Some(id),
                "agency_id")
      [] translation.table_name = "Stops" ->
            RecordIdOnly(translation, id \in DOMAIN d.stops, "stop_id")
      [] translation.table_name = "Routes" ->
            RecordIdOnly(translation, id \in DOMAIN d.routes, "route_id")
      [] translation.table_name = "Trips" ->
            RecordIdOnly(translation, id \in DOMAIN d.trips, "trip_id")
      [] translation.table_name = "StopTimes" ->
            TranslationOfStopTimes(d, translation)
      [] translation.table_name = "Levels" ->
            RecordIdOnly(translation,
                \E level \in Values(d.levels) : level.level_id = id,
                "level_id")
      [] translation.table_name = "FeedInfo" ->
            IF \/ is_some(translation.record_id)
               \/ is_some(translation.record_sub_id)
               \/ is_some(translation.field_value)
            THEN DatasetValidationError("inconsistent-value",
                     "record_id, record_sub_id, field_value", <<translation>>)
            ELSE OkUnit
      [] translation.table_name = "Calendar" ->
            RecordIdOnly(translation,
                \E calendar \in Values(d.calendar) : calendar.service_id = id,
                "service_id")
      [] translation.table_name = "CalendarDates" ->
            TranslationOfCalendarDates(d, translation)
      [] translation.table_name = "FareAttributes" ->
            RecordIdOnly(translation,
                \E fare_attribute \in Values(d.fare_attributes) :
                    fare_attribute.fare_id = id,
                "fare_id")
      [] translation.table_name = "Shapes" ->
            RecordIdOnly(translation,
                \E shape \in Values(d.shapes) : shape.shape_id = id,
                "shape_id")
      [] translation.table_name = "Frequencies" ->
            TranslationOfFrequencies(d, translation)

\* One turn of the loop over translations (dataset.rs 1536-1987).
TranslationCheck(d, translation) ==
    IF TranslationArm(d, translation) # OkUnit
    THEN TranslationArm(d, translation)
    ELSE IF /\ is_some(translation.field_value)
            /\ (is_some(translation.record_id)
                    \/ is_some(translation.record_sub_id))
    THEN DatasetValidationError("inconsistent-value",
             "field_value, record_id, record_sub_id", <<translation>>)
    ELSE OkUnit

TranslationsStage(d) ==
    ForEachInOrder(d.translations,
                   LAMBDA translation : TranslationCheck(d, translation))

\* dataset.rs 2023-2036: the DashMap from each language to the set of
\* (record_id, record_sub_id) pairs translated in it.
TranslationsByLanguage(d) ==
    [ language \in { translation.language :
                     translation \in Elems(d.translations) } |->
        { <<translation.record_id, translation.record_sub_id>> :
          translation \in { t \in Elems(d.translations) :
                                t.language = language } } ]

\* The orders in which a hash map or a hash set may yield its elements.
IterationOrders(elements) ==
    { order \in [1..Cardinality(elements) -> elements] :
        \A i, j \in DOMAIN order : i # j => order[i] # order[j] }

NextGroupDiffersOnlyAtTheFront(translations_by_language, order) ==
    /\ Len(order) > 1
    /\ translations_by_language[order[2]] # translations_by_language[order[1]]

\* dataset.rs 2040-2060: the peekable loop compares every group with the
\* one the iterator yields after it.
NextGroupDiffers(translations_by_language, order) ==
    \E i \in 1..(Len(order) - 1) :
        translations_by_language[order[i + 1]] #
            translations_by_language[order[i]]

\* dataset.rs 1995-2093.  The map of groups and the set of languages are
\* read in an arbitrary iteration order.
FeedInfoStage(d) ==
    LET languages == { translation.language :
                       translation \in Elems(d.translations) }
    IN
    IF is_none(d.feed_info)
    THEN IF Len(d.translations) # 0
         THEN {DatasetValidationError("missing-value", "feed_info.txt", <<>>)}
         ELSE {OkUnit}
    ELSE LET feed_info == unwrap(d.feed_info) IN
         IF /\ is_some(feed_info.feed_start_date)
            /\ is_some(feed_info.feed_end_date)
            /\ unwrap(feed_info.feed_start_date) > unwrap(feed_info.feed_end_date)
         THEN {DatasetValidationError("inconsistent-value",
                   "feed_start_date, feed_end_date", <<feed_info>>)}
         ELSE IF feed_info.feed_lang = "mul"
         THEN { IF NextGroupDiffers(TranslationsByLanguage(d), order)
                THEN DatasetValidationError("inconsistent-value",
                                            "translations", <<feed_info>>)
                ELSE OkUnit : order \in IterationOrders(languages) }
         ELSE IF Cardinality(languages) > 1
         THEN { IF first # feed_info.feed_lang
                THEN DatasetValidationError("inconsistent-value", "feed_lang",
                                            <<feed_info>>)
                ELSE OkUnit : first \in languages }
         ELSE {OkUnit}

(***************************************************************************)
(* Dataset::validate, the stages after the loop over stops, in the order   *)
(* of the code, for the tables of the model.                               *)
(***************************************************************************)
StagesAfterStopsWithoutServiceTests(d, variable) ==
    AndThen(RoutesStage(d),
    AndThen(StopTimesStage(d),
    AndThen(FareAttributesStage(d),
    AndThen(TimeframesStage(d),
    AndThen(FareTransfersStage(d),
    AndThen(ShapesStage(d),
    AndThen(FrequenciesStage(d),
    AndThen(PathwaysStage(d),
    AndThen(LocationGroupsStage(d),
    AndThen(LocationGroupStopsStage(d),
    AndThen(BookingRulesStage(d),
    AndThen(TranslationsStage(d),
            FeedInfoStage(d)))))))))))))

StagesAfterStops(d, variable) ==
    AndThen(RoutesStage(d),
    AndThen(TripsStage(d),
    AndThen(StopTimesStage(d),
    AndThen(CalendarStage(d, variable),
    AndThen(FareAttributesStage(d),
    AndThen(TimeframesStage(d),
    AndThen(FareTransfersStage(d),
    AndThen(ShapesStage(d),
    AndThen(FrequenciesStage(d),
    AndThen(PathwaysStage(d),
    AndThen(LocationGroupsStage(d),
    AndThen(LocationGroupStopsStage(d),
    AndThen(BookingRulesStage(d),
    AndThen(TranslationsStage(d),
            FeedInfoStage(d)))))))))))))))

(***************************************************************************)
(* The operands of the service-time operations                             *)
(***************************************************************************)
HourSet == {0, 1, 7, 23}
MinuteSet == {0, 35, 59}
SecondSet == {0, 59}

ServiceTimes ==
    { NaiveServiceTime([hour |-> h, minute |-> m, second |-> s], o) :
        h \in HourSet, m \in MinuteSet, s \in SecondSet, o \in BOOLEAN }

\* Seconds since midnight of the service day: what a service time denotes.
ServiceSeconds(t) ==
    (IF t.overflow THEN 24 ELSE 0) * 3600
        + t.time.hour * 3600 + t.time.minute * 60 + t.time.second

LiteralHours == {0, 7, 23, 24, 25, 47}

Literal(h, m, s) == Pad2(h) \o <<":">> \o Pad2(m) \o <<":">> \o Pad2(s)

TimeLiterals ==
    { Literal(h, m, s) : h \in LiteralHours, m \in MinuteSet, s \in SecondSet }

MalformedLiterals ==
    { <<"2", "5", ":", "3", "5">>, <<"a", "b", ":", "0", "0", ":", "0", "0">>,
      <<"0", "8", ":", "6", "1", ":", "0", "0">>, <<"0", "8">> }

Durations == {0, 1, 60, 3600, 82800, 86400, 172800}

TimeInit ==
    /\ t_in \in
         [op : {"cmp"}, a : ServiceTimes, b : ServiceTimes]
         \cup [op : {"roundtrip"}, lit : TimeLiterals \cup MalformedLiterals]
         \cup [op : {"add"}, a : ServiceTimes, d : Durations]
    /\ t_out = [op |-> "none"]
    /\ ds = [tables |-> "none"]
    /\ env = None
    /\ pc = "idle"
    /\ pending = {}
    /\ walk = None
    /\ station_ids = {}
    /\ result = [tag |-> "None"]
    /\ NotLoading
    /\ NotQuerying

\* a.cmp(&b), a == b
Compare ==
    /\ t_in.op = "cmp"
    /\ t_out.op = "none"
    /\ t_out' = [op |-> "cmp", ordering |-> cmp(t_in.a, t_in.b),
                 equal |-> eq(t_in.a, t_in.b)]
    /\ UNCHANGED <<t_in, validateVars, loadVars, queryVars>>

\* String::from(NaiveServiceTime::try_from(lit)?)
RoundTrip ==
    /\ t_in.op = "roundtrip"
    /\ t_out.op = "none"
    /\ LET parsed == try_from(t_in.lit)
       IN  t_out' = [op |-> "roundtrip", parsed |-> parsed,
                     text |-> IF parsed.tag = "Ok" THEN StringFrom(parsed.val)
                              ELSE <<>>]
    /\ UNCHANGED <<t_in, validateVars, loadVars, queryVars>>

\* a + Duration::from_secs(d)
AddDuration ==
    /\ t_in.op = "add"
    /\ t_out.op = "none"
    /\ t_out' = [op |-> "add", sum |-> add(t_in.a, t_in.d)]
    /\ UNCHANGED <<t_in, validateVars, loadVars, queryVars>>

TimeNext == Compare \/ RoundTrip \/ AddDuration

SpecTime == TimeInit /\ [][TimeNext]_vars

(***************************************************************************)
(* The datasets validate is run on.  BaseDataset is a feed that validates; *)
(* each family varies some of its tables.                                  *)
(***************************************************************************)
Keyed(records, Key(_)) ==
    [ k \in { Key(r) : r \in records } |->
        CHOOSE r \in records : Key(r) = k ]

\* The characters of the cells and literals of the model.
Text(id) ==
    CASE id = "" -> <<>>
      [] id = "0" -> <<"0">>
      [] id = "1" -> <<"1">>
      [] id = "2" -> <<"2">>
      [] id = "3" -> <<"3">>
      [] id = "-1" -> <<"-", "1">>
      [] id = "x" -> <<"x">>
      [] id = "2024-01-01" -> <<"2","0","2","4","-","0","1","-","0","1">>
      [] id = "20240101" -> <<"2","0","2","4","0","1","0","1">>
      [] id = "08:00:00" -> <<"0","8",":","0","0",":","0","0">>
      [] id = "08:00" -> <<"0","8",":","0","0">>

\* The service time a cell HH:MM:00 of a file deserializes to.
Time(h, m) == try_from(Literal(h, m, 0)).val

Agency(agency_id, agency_timezone) ==
    [agency_id |-> agency_id, agency_timezone |-> agency_timezone]

Stop(stop_id, stop_name, location_type, parent_station, level_id) ==
    [stop_id |-> stop_id, stop_name |-> stop_name,
     stop_coord |-> Some("48.85,2.35"), location_type |-> location_type,
     parent_station |-> parent_station, level_id |-> level_id]

Route(route_id, agency_id, continuous_pickup, network_id) ==
    [route_id |-> route_id, agency_id |-> agency_id,
     route_short_name |-> Some("1"), route_long_name |-> None,
     continuous_pickup |-> continuous_pickup, continuous_drop_off |-> None,
     network_id |-> network_id]

Trip(trip_id, route_id, service_id, shape_id) ==
    [trip_id |-> trip_id, route_id |-> route_id, service_id |-> service_id,
     shape_id |-> shape_id]

StopTime(trip_id, stop_sequence, arrival_time, stop_id, shape_dist_traveled) ==
    [trip_id |-> trip_id, stop_sequence |-> stop_sequence,
     arrival_time |-> arrival_time, departure_time |-> arrival_time,
     stop_id |-> stop_id, location_group_id |-> None, location_id |-> None,
     shape_dist_traveled |-> shape_dist_traveled,
     start_pickup_drop_off_window |-> None,
     end_pickup_drop_off_window |-> None,
     pickup_type |-> None, drop_off_type |-> None,
     continuous_pickup |-> None, continuous_drop_off |-> None,
     timepoint |-> None,
     pickup_booking_rule_id |-> None, drop_off_booking_rule_id |-> None]

Calendar(service_id, start_date, end_date) ==
    [service_id |-> service_id, start_date |-> start_date,
     end_date |-> end_date]

CalendarDate(service_id, date) == [service_id |-> service_id, date |-> date]

FareAttribute(fare_id, price, agency_id) ==
    [fare_id |-> fare_id, price |-> price, agency_id |-> agency_id]

Timeframe(timeframe_group_id, start_time, end_time, service_id) ==
    [timeframe_group_id |-> timeframe_group_id, start_time |-> start_time,
     end_time |-> end_time, service_id |-> service_id]

Shape(shape_id, shape_pt_sequence, shape_dist_traveled) ==
    [shape_id |-> shape_id, shape_pt_sequence |-> shape_pt_sequence,
     shape_dist_traveled |-> shape_dist_traveled]

Frequency(trip_id, start_time, end_time, headway_secs, exact_times) ==
    [trip_id |-> trip_id, start_time |-> start_time, end_time |-> end_time,
     headway_secs |-> headway_secs, exact_times |-> exact_times]

Level(level_id, level_index, level_name) ==
    [level_id |-> level_id, level_index |-> level_index,
     level_name |-> level_name]

Translation(table_name, language, record_id, record_sub_id, field_value) ==
    [table_name |-> table_name, field_name |-> "name", language |-> language,
     translation |-> "nom", record_id |-> record_id,
     record_sub_id |-> record_sub_id, field_value |-> field_value]

FareTransferRule(from_leg_group_id, to_leg_group_id, transfer_count) ==
    [from_leg_group_id |-> from_leg_group_id,
     to_leg_group_id |-> to_leg_group_id, transfer_count |-> transfer_count,
     duration_limit |-> None, duration_limit_type |-> None,
     fare_transfer_type |-> "FromLegPlusTransfer", fare_product_id |-> None]

Pathway(pathway_id, from_stop_id, to_stop_id, pathway_mode, is_bidirectional) ==
    [pathway_id |-> pathway_id, from_stop_id |-> from_stop_id,
     to_stop_id |-> to_stop_id, pathway_mode |-> pathway_mode,
     is_bidirectional |-> is_bidirectional, length |-> None,
     min_width |-> None]

LocationGroup(location_group_id) ==
    [location_group_id |-> location_group_id, location_group_name |-> None]

LocationGroupStop(location_group_id, stop_id) ==
    [location_group_id |-> location_group_id, stop_id |-> stop_id]

BookingRule(booking_rule_id, booking_type) ==
    [booking_rule_id |-> booking_rule_id, booking_type |-> booking_type,
     prior_notice_duration_min |-> None, prior_notice_duration_max |-> None,
     prior_notice_last_day |-> None, prior_notice_last_time |-> None,
     prior_notice_start_day |-> None, prior_notice_start_time |-> None,
     prior_notice_service_id |-> None]

FeedInfo(feed_lang) ==
    [feed_publisher_name |-> "publisher", feed_lang |-> feed_lang,
     feed_start_date |-> None, feed_end_date |-> None]

\* Dataset::new() (dataset.rs 219-251), for the tables of the model.
EmptyDataset ==
    [agencies |-> <<>>, stops |-> <<>>, routes |-> <<>>, trips |-> <<>>,
     stop_times |-> <<>>, calendar |-> <<>>, calendar_dates |-> <<>>,
     fare_attributes |-> <<>>, timeframes |-> <<>>, routes_networks |-> <<>>,
     shapes |-> <<>>, frequencies |-> <<>>, levels |-> <<>>,
     translations |-> <<>>, feed_info |-> None,
     fare_products |-> <<>>, fare_leg_rules |-> <<>>, fare_transfers |-> <<>>,
     pathways |-> <<>>, location_groups |-> <<>>,
     location_groups_stops |-> <<>>, booking_rules |-> <<>>]

stop_key(stop) == stop.stop_id
route_key(route) == route.route_id
trip_key(trip) == trip.trip_id
stop_time_key(stop_time) == <<stop_time.trip_id, stop_time.stop_sequence>>
calendar_key(calendar) == calendar.service_id
calendar_date_key(calendar_date) ==
    <<calendar_date.service_id, calendar_date.date>>
fare_attribute_key(fare_attribute) == fare_attribute.fare_id
shape_key(shape) == <<shape.shape_id, shape.shape_pt_sequence>>
frequency_key(frequency) == <<frequency.trip_id, frequency.start_time>>
level_key(level) == level.level_id
pathway_key(pathway) == pathway.pathway_id
location_group_key(location_group) == location_group.location_group_id
booking_rule_key(booking_rule) == booking_rule.booking_rule_id

BaseDataset ==
    [EmptyDataset EXCEPT
        !.agencies = <<Agency(Some("a1"), "Europe/Paris")>>,
        !.stops = Keyed({ Stop("s1", Some("Quai"), Some("StopOrPlatform"),
                               None, None) }, stop_key),
        !.routes = Keyed({ Route("r1", Some("a1"), None, None) }, route_key),
        !.trips = Keyed({ Trip("t1", "r1", "sv1", None) }, trip_key),
        !.stop_times = Keyed({ StopTime("t1", 1, Some(Time(8, 0)), Some("s1"),
                                        None) }, stop_time_key),
        !.calendar = Keyed({ Calendar("sv1", 20240101, 20241231) },
                           calendar_key)]

Present(choices) == { unwrap(c) : c \in choices \ {None} }

LocationTypes ==
    {"StopOrPlatform", "Station", "EntranceOrExit", "GenericNode",
     "BoardingArea"}

StopIds == {"s1", "s2", "s3"}

\* Stops s1 and s2 of every type with every parent_station, among them the
\* links that form a cycle; s3 is absent, a station, or a node below s1.
StopChoices(stop_id) ==
    {None} \cup
    { Some(Stop(stop_id, Some("Quai"), location_type, parent_station, None)) :
        location_type \in {None} \cup { Some(t) : t \in LocationTypes },
        parent_station \in {None} \cup { Some(p) : p \in StopIds } }

LastStopChoices ==
    { None,
      Some(Stop("s3", Some("Gare"), Some("Station"), None, None)),
      Some(Stop("s3", Some("Gare"), Some("Station"), None, Some("L1"))),
      Some(Stop("s3", None, Some("Station"), None, None)),
      Some(Stop("s3", None, None, None, None)),
      Some([Stop("s3", Some("Gare"), None, None, None)
                EXCEPT !.stop_coord = None]),
      Some(Stop("s3", None, Some("GenericNode"), Some("s1"), None)) }

StopsFamily ==
    { [BaseDataset EXCEPT !.stops = Keyed(Present({c1, c2, c3}), stop_key),
                          !.stop_times = <<>>] :
        c1 \in StopChoices("s1"), c2 \in StopChoices("s2"),
        c3 \in LastStopChoices }

\* Up to three stop_times of trip t1 with sequences 1, 2, 3, each with an
\* arrival before or after midnight or none and a distance or none, and a
\* stop_time of another trip.
ArrivalTimes == { None, Some(Time(8, 0)), Some(Time(23, 0)), Some(Time(25, 0)) }

Distances == { None, Some(1), Some(2) }

StopTimeChoices(stop_sequence) ==
    {None} \cup
    { Some(StopTime("t1", stop_sequence, arrival_time, Some("s1"), distance)) :
        arrival_time \in ArrivalTimes, distance \in Distances }

OtherTripChoices ==
    { None,
      Some(StopTime("t2", 1, Some(Time(8, 0)), Some("s1"), None)),
      Some(StopTime("t9", 1, Some(Time(8, 0)), Some("s1"), None)) }

StopTimesFamily ==
    { [BaseDataset EXCEPT
          !.trips = Keyed({ Trip("t1", "r1", "sv1", None),
                            Trip("t2", "r1", "sv1", None) }, trip_key),
          !.stop_times = Keyed(Present({c1, c2, c3, c4}), stop_time_key)] :
        c1 \in StopTimeChoices(1), c2 \in StopTimeChoices(2),
        c3 \in StopTimeChoices(3), c4 \in OtherTripChoices }

\* Datasets whose records carry identifiers of records that exist and of
\* records that do not ("zz", "t9"), one group of tables at a time.
TripReferencesFamily ==
    { [BaseDataset EXCEPT
          !.trips = Keyed({ Trip("t1", route_id, service_id, shape_id) },
                          trip_key),
          !.shapes = shapes,
          !.frequencies = frequencies] :
        route_id \in {"r1", "zz"}, service_id \in {"sv1", "zz"},
        shape_id \in {None, Some("sh1")},
        shapes \in { <<>>, Keyed({ Shape("sh1", 1, None) }, shape_key) },
        frequencies \in
            { <<>> } \cup
            { Keyed({ Frequency(trip_id, Time(8, 0), Time(23, 0), 600, None) },
                    frequency_key) : trip_id \in {"t1", "t9"} } }

AgencyReferencesFamily ==
    { [BaseDataset EXCEPT
          !.agencies = agencies,
          !.routes = Keyed({ Route("r1", agency_id, None, None) }, route_key),
          !.fare_attributes = fare_attributes] :
        agencies \in { <<Agency(Some("a1"), "Europe/Paris")>>,
                       <<Agency(Some("a1"), "Europe/Paris"),
                         Agency(Some("a2"), "Europe/Paris")>>,
                       <<Agency(Some("a1"), "Europe/Paris"),
                         Agency(Some("a2"), "Europe/London")>>,
                       <<Agency(Some("a1"), "Europe/Paris"),
                         Agency(Some("a1"), "Europe/Paris")>>,
                       <<Agency(Some("a1"), "Europe/Paris"),
                         Agency(None, "Europe/Paris")>> },
        agency_id \in {None, Some("a1"), Some("zz")},
        fare_attributes \in
            { <<>> } \cup
            { Keyed({ FareAttribute("f1", 2, fare_agency_id) },
                    fare_attribute_key) :
              fare_agency_id \in {None, Some("a1"), Some("zz")} } }

StopReferencesFamily ==
    { [BaseDataset EXCEPT
          !.stops = Keyed({ Stop("s1", Some("Quai"), Some("StopOrPlatform"),
                                 None, level_id) }, stop_key),
          !.levels = levels,
          !.stop_times = Keyed({ StopTime(trip_id, 1, Some(Time(8, 0)),
                                          Some(stop_id), None) },
                               stop_time_key)] :
        level_id \in {None, Some("L1")},
        levels \in { <<>>, Keyed({ Level("L1", 0, None) }, level_key) },
        trip_id \in {"t1", "t9"}, stop_id \in {"s1", "zz"} }

\* Two or three timeframes of groups G1 and G2: intervals that are
\* disjoint, nested, crossing, touching at an endpoint or empty, intervals
\* without endpoints, and rows Timeframe::validate rejects.
NaiveTime(h, m) == unwrap(from_hms_opt(h, m, 0))

TimeframeHours == {6, 8, 9, 10}

TimeframeChoices ==
    { Timeframe(group, Some(NaiveTime(h1, 0)), Some(NaiveTime(h2, 0)), "sv1") :
        group \in {"G1", "G2"}, h1 \in TimeframeHours, h2 \in TimeframeHours }
    \cup { Timeframe(group, None, None, "sv1") : group \in {"G1", "G2"} }
    \cup { Timeframe("G1", Some(NaiveTime(6, 0)), None, "sv1"),
           Timeframe("G1", Some(NaiveTime(6, 0)), Some(NaiveTime(9, 0)), "zz") }

LastTimeframeChoices ==
    { <<>>,
      <<Timeframe("G1", Some(NaiveTime(6, 0)), Some(NaiveTime(9, 0)), "sv1")>>,
      <<Timeframe("G1", Some(NaiveTime(8, 0)), Some(NaiveTime(8, 0)), "sv1")>> }

TimeframesFamily ==
    { [BaseDataset EXCEPT !.timeframes = <<timeframe1, timeframe2>> \o last] :
        timeframe1 \in TimeframeChoices, timeframe2 \in TimeframeChoices,
        last \in LastTimeframeChoices }

\* One translation of every table of the model, with a record_id that
\* exists or not and a record_sub_id that parses as a stop_sequence, as a
\* date, as a time, or not at all, against tables with and without records.
TableNames ==
    {"Agency", "Stops", "Routes", "Trips", "StopTimes", "Levels", "FeedInfo",
     "Calendar", "CalendarDates", "FareAttributes", "Shapes", "Frequencies"}

SubIds == {"1", "x", "2024-01-01", "20240101", "08:00:00", "08:00"}

TranslatedDataset ==
    [BaseDataset EXCEPT
        !.calendar_dates = Keyed({ CalendarDate("sv1", 20240101) },
                                 calendar_date_key),
        !.frequencies = Keyed({ Frequency("t1", Time(8, 0), Time(23, 0), 600,
                                          None) }, frequency_key),
        !.feed_info = Some(FeedInfo("fr"))]

UntranslatedTables ==
    [BaseDataset EXCEPT !.stop_times = <<>>, !.feed_info = Some(FeedInfo("fr"))]

TranslationsFamily ==
    { [d EXCEPT !.translations =
          <<Translation(table_name, "fr", record_id, record_sub_id,
                        field_value)>>] :
        d \in {TranslatedDataset, UntranslatedTables},
        table_name \in TableNames,
        record_id \in {None, Some("t1"), Some("sv1"), Some("zz")},
        record_sub_id \in {None} \cup { Some(Text(sub)) : sub \in SubIds },
        field_value \in {None, Some("Quai")} }

\* Translations in one or two languages against every feed_lang.
FeedLangFamily ==
    { [BaseDataset EXCEPT
          !.translations =
              <<Translation("Stops", "fr", Some("s1"), None, None)>> \o second,
          !.feed_info = feed_info] :
        second \in { <<>>,
                     <<Translation("Stops", "en", Some("s1"), None, None)>>,
                     <<Translation("Routes", "en", Some("r1"), None, None)>> },
        feed_info \in {None} \cup
                      { Some(FeedInfo(lang)) :
                          lang \in {"fr", "en", "de", "mul"} } }

\* Multilingual feeds: each of three languages translates none, one or both
\* of two records.
MultilingualChoices(language) ==
    { <<>>,
      <<Translation("Stops", language, Some("s1"), None, None)>>,
      <<Translation("Routes", language, Some("r1"), None, None)>>,
      <<Translation("Stops", language, Some("s1"), None, None),
        Translation("Routes", language, Some("r1"), None, None)>> }

MultilingualFamily ==
    { [BaseDataset EXCEPT !.translations = fr \o en \o de,
                          !.feed_info = Some(FeedInfo("mul"))] :
        fr \in MultilingualChoices("fr"), en \in MultilingualChoices("en"),
        de \in MultilingualChoices("de") }

\* Feeds with and without calendar.txt and calendar_dates.txt, run with the
\* environment variable unset or set to a text.
CalendarFamily ==
    { [BaseDataset EXCEPT
          !.trips = trips,
          !.stop_times = <<>>,
          !.calendar = calendar,
          !.calendar_dates = calendar_dates] :
        trips \in { <<>>, Keyed({ Trip("t1", "r1", "sv1", None) }, trip_key) },
        calendar \in { <<>>, Keyed({ Calendar("sv1", 20240101, 20241231) },
                                   calendar_key),
                       Keyed({ Calendar("sv1", 20241231, 20240101) },
                             calendar_key) },
        calendar_dates \in
            { <<>> } \cup
            { Keyed({ CalendarDate(service_id, 20240101) }, calendar_date_key) :
              service_id \in {"sv1", "zz", ""} } }

EnvironmentValues ==
    {None, Some("true"), Some("false"), Some("1"), Some("0"), Some("no"),
     Some("")}

\* Up to three agencies, each with an agency_id that is absent, empty or
\* one of two identifiers, and one of two timezones.
AgencyChoices ==
    { Agency(agency_id, agency_timezone) :
        agency_id \in {None, Some(""), Some("a1"), Some("a2")},
        agency_timezone \in {"Europe/Paris", "Europe/London"} }

AgenciesFamily ==
    { [BaseDataset EXCEPT !.agencies = agencies] :
        agencies \in UNION { [1..n -> AgencyChoices] : n \in 0..3 } }

\* One or two fare transfer rules; fare_leg_rules and fare_products are
\* empty in every dataset of the model.
FareTransferChoices ==
    { FareTransferRule(from_leg_group_id, to_leg_group_id, transfer_count) :
        from_leg_group_id \in {None, Some("lg1")},
        to_leg_group_id \in {None, Some("lg1")},
        transfer_count \in {None, Some(1)} }

FareTransfersFamily ==
    { [BaseDataset EXCEPT !.fare_transfers = fare_transfers,
                          !.stops = stops] :
        fare_transfers \in UNION { [1..n -> FareTransferChoices] : n \in 1..2 },
        stops \in { BaseDataset.stops,
                    Keyed({ Stop("s1", Some("Quai"), Some("StopOrPlatform"),
                                 Some("zz"), None) }, stop_key) } }

\* One pathway between two stops, of a mode that is an exit gate or not,
\* in one direction or both, with and without a length.
PathwaysFamily ==
    { [BaseDataset EXCEPT
          !.stops = Keyed({ Stop("s1", Some("Quai"), Some("StopOrPlatform"),
                                 None, None),
                            Stop("s2", Some("Gare"), Some("Station"),
                                 None, None) }, stop_key),
          !.pathways =
              Keyed({ [Pathway("X", from_stop_id, to_stop_id, pathway_mode,
                               is_bidirectional) EXCEPT !.length = length] },
                    pathway_key),
          !.feed_info = feed_info] :
        from_stop_id \in {"s1", "s2", "zz"}, to_stop_id \in {"s2", ""},
        pathway_mode \in {"Walkway", "ExitGate"},
        is_bidirectional \in BOOLEAN,
        length \in {None, Some(1), Some(-1), Some(NaN)},
        feed_info \in {None, Some([FeedInfo("fr") EXCEPT
                                      !.feed_start_date = Some(20241231),
                                      !.feed_end_date = Some(20240101)])} }

\* Location groups whose identifier is or is not the identifier of a stop.
LocationGroupsFamily ==
    { [BaseDataset EXCEPT
          !.location_groups = Keyed({ LocationGroup(id) : id \in ids },
                                    location_group_key),
          !.location_groups_stops = location_groups_stops] :
        ids \in SUBSET {"lg1", "s1", ""},
        location_groups_stops \in
            UNION { [1..n -> { LocationGroupStop(location_group_id, stop_id) :
                                 location_group_id \in {"lg1", "lg2"},
                                 stop_id \in {"s1", "zz", ""} }] :
                    n \in 0..2 } }

\* Up to three points of shape sh1 with sequences 1, 2, 3, each with a
\* distance, NaN or none, and a point of another shape.
ShapeDistances == { None, Some(0), Some(1), Some(2), Some(NaN) }

ShapeChoices(shape_pt_sequence) ==
    {None} \cup
    { Some(Shape("sh1", shape_pt_sequence, distance)) :
        distance \in ShapeDistances }

ShapesFamily ==
    { [BaseDataset EXCEPT
          !.shapes = Keyed(Present({c1, c2, c3, c4}), shape_key)] :
        c1 \in ShapeChoices(1), c2 \in ShapeChoices(2), c3 \in ShapeChoices(3),
        c4 \in { None, Some(Shape("sh2", 2, Some(1))),
                 Some(Shape("sh2", 2, Some(-1))) } }

\* Two stop_times with and without a pickup and drop-off window, with
\* every pickup_type and drop_off_type the defaulting tells apart.
PickupChoices(stop_sequence) ==
    { [StopTime("t1", stop_sequence, arrival_time, Some("s1"), None) EXCEPT
          !.start_pickup_drop_off_window = window,
          !.pickup_type = pickup_type,
          !.drop_off_type = drop_off_type,
          !.continuous_pickup = continuous_pickup] :
        arrival_time \in {None, Some(Time(8, 0))},
        window \in {None, Some(Time(8, 0))},
        pickup_type \in {None, Some("RegularlyScheduled"), Some("NoPickup"),
                         Some("MustCoordinateWithDriver")},
        drop_off_type \in {None, Some("RegularlyScheduled"),
                           Some("NoDropOff")},
        continuous_pickup \in {None, Some("Continuous")} }

PickupFamily ==
    { [BaseDataset EXCEPT
          !.trips = Keyed({ Trip("t1", "r1", "sv1", Some("sh1")) }, trip_key),
          !.stop_times = Keyed({c1, c2}, stop_time_key)] :
        c1 \in PickupChoices(1),
        c2 \in { c \in PickupChoices(2) :
                   is_none(c.continuous_pickup) /\ is_some(c.arrival_time) } }

\* One stop_time with every combination of its three locations, a distance
\* that is absent, negative, zero or NaN, a timepoint, a time and a window.
StopTimeRowChoices ==
    { [StopTime("t1", 1, arrival_time, stop_id, distance) EXCEPT
          !.location_group_id = location_group_id,
          !.location_id = location_id,
          !.timepoint = timepoint,
          !.start_pickup_drop_off_window = window] :
        arrival_time \in {None, Some(Time(8, 0))},
        stop_id \in {None, Some("s1")},
        location_group_id \in {None, Some("lg1")},
        location_id \in {None, Some("loc1")},
        distance \in {None, Some(-1), Some(0), Some(NaN)},
        timepoint \in {None, Some("Exact"), Some("Approximate")},
        window \in {None, Some(Time(8, 0))} }

StopTimeRowsFamily ==
    { [BaseDataset EXCEPT !.stop_times = Keyed({ stop_time }, stop_time_key)] :
        stop_time \in StopTimeRowChoices }

\* One booking rule of every booking_type with each of its conditional
\* fields present or absent.
BookingTypes == {"RealTime", "SameDayWithNotice", "PriorDaysWithNotice"}

BookingRuleChoices ==
    { [BookingRule("b1", booking_type) EXCEPT
          !.prior_notice_duration_min = duration_min,
          !.prior_notice_duration_max = duration_max,
          !.prior_notice_last_day = last_day,
          !.prior_notice_last_time = last_time,
          !.prior_notice_start_day = start_day,
          !.prior_notice_start_time = start_time,
          !.prior_notice_service_id = service_id] :
        booking_type \in BookingTypes,
        duration_min \in {None, Some(30)},
        duration_max \in {None, Some(60)},
        last_day \in {None, Some(1)},
        last_time \in {None, Some(NaiveTime(17, 0))},
        start_day \in {None, Some(7)},
        start_time \in {None, Some(NaiveTime(0, 0))},
        service_id \in {None, Some("sv1"), Some("zz")} }

BookingRulesFamily ==
    { [BaseDataset EXCEPT
          !.booking_rules = Keyed({ booking_rule }, booking_rule_key)] :
        booking_rule \in BookingRuleChoices }

\* Translations of stop_times in a feed with two trips: the record_id is a
\* trip and the record_sub_id a stop_sequence, of that trip or of the other.
TranslatedStopTimesFamily ==
    { [BaseDataset EXCEPT
          !.trips = Keyed({ Trip("t1", "r1", "sv1", None),
                            Trip("t2", "r1", "sv1", None) }, trip_key),
          !.stop_times = Keyed({ StopTime("t1", 1, Some(Time(8, 0)),
                                          Some("s1"), None),
                                 StopTime("t2", 2, Some(Time(8, 0)),
                                          Some("s1"), None) }, stop_time_key),
          !.translations =
              <<Translation("StopTimes", "fr", Some(record_id),
                            Some(Text(sub)), None)>>,
          !.feed_info = Some(FeedInfo("fr"))] :
        record_id \in {"t1", "t2", "t9"}, sub \in {"1", "2", "3"} }

(***************************************************************************)
(* Dataset::from_csv (dataset.rs 2149-2426).  A directory is a set of      *)
(* files; a file has a name, a header and rows of cells.  The record       *)
(* number of the header is 0 and the first row is record 1.                *)
(***************************************************************************)
\* str::parse::<f32> on the cells of the model, which hold whole numbers:
\* an optional sign and at least one digit.  None stands for Err.
ParseF32(s) ==
    LET negative == s # <<>> /\ Head(s) = "-"
        body == IF s # <<>> /\ Head(s) \in {"-", "+"} THEN Tail(s) ELSE s
    IN  IF body = <<>> \/ \E i \in 1..Len(body) : ~IsDigit(body[i])
        THEN None
        ELSE Some(IF negative THEN 0 - DigitsValue(body, 0)
                  ELSE DigitsValue(body, 0))

\* The cell of the column called name, None when the header lacks it.
Column(header, cells, name) ==
    IF \E i \in 1..Len(header) : header[i] = name
    THEN Some(cells[CHOOSE i \in 1..Len(header) : header[i] = name])
    ELSE None

\* record.deserialize::<Level>(Some(&header)): level_id is a String,
\* level_index an f32, level_name an Option<String> that an empty cell or a
\* missing column leaves None.
DeserializeLevel(header, cells) ==
    LET level_id == Column(header, cells, "level_id")
        level_index == Column(header, cells, "level_index")
        level_name == Column(header, cells, "level_name")
    IN  IF is_none(level_id) THEN Err("missing field level_id")
        ELSE IF is_none(level_index) THEN Err("missing field level_index")
        ELSE IF is_none(ParseF32(Text(unwrap(level_index))))
        THEN Err("invalid float literal")
        ELSE Ok(Level(unwrap(level_id),
                      unwrap(ParseF32(Text(unwrap(level_index)))),
                      IF is_none(level_name) \/ level_name = Some("")
                      THEN None ELSE level_name))

\* record.deserialize::<Stop>, for a header of stop_id and stop_name:
\* stop_id is a StopId, stop_name an Option<String>, and the columns the
\* header lacks leave the other optional fields, the flattened stop_coord
\* included, None.
DeserializeStop(header, cells) ==
    LET stop_id == Column(header, cells, "stop_id")
        stop_name == Column(header, cells, "stop_name")
    IN  IF is_none(stop_id) THEN Err("missing field stop_id")
        ELSE Ok([Stop(unwrap(stop_id),
                      IF is_none(stop_name) \/ stop_name = Some("")
                      THEN None ELSE stop_name,
                      None, None, None) EXCEPT !.stop_coord = None])

\* record.deserialize::<LocationGroup>
DeserializeLocationGroup(header, cells) ==
    LET location_group_id == Column(header, cells, "location_group_id")
        location_group_name == Column(header, cells, "location_group_name")
    IN  IF is_none(location_group_id)
        THEN Err("missing field location_group_id")
        ELSE Ok([LocationGroup(unwrap(location_group_id)) EXCEPT
                    !.location_group_name =
                        IF is_none(location_group_name)
                               \/ location_group_name = Some("")
                        THEN None ELSE location_group_name])

\* record.deserialize::<LocationGroupStop>
DeserializeLocationGroupStop(header, cells) ==
    LET location_group_id == Column(header, cells, "location_group_id")
        stop_id == Column(header, cells, "stop_id")
    IN  IF is_none(location_group_id)
        THEN Err("missing field location_group_id")
        ELSE IF is_none(stop_id) THEN Err("missing field stop_id")
        ELSE Ok(LocationGroupStop(unwrap(location_group_id), unwrap(stop_id)))

\* The cells of the model that Url::parse and LanguageTag::parse accept.
Urls == {"http://p"}

LanguageTags == {"fr", "en", "mul"}

\* record.deserialize::<FeedInfo>: feed_publisher_name is a String,
\* feed_publisher_url a Url, feed_lang a LanguageTag; the dates default to
\* None when the header lacks them.
DeserializeFeedInfo(header, cells) ==
    LET feed_publisher_name == Column(header, cells, "feed_publisher_name")
        feed_publisher_url == Column(header, cells, "feed_publisher_url")
        feed_lang == Column(header, cells, "feed_lang")
    IN  IF is_none(feed_publisher_name)
        THEN Err("missing field feed_publisher_name")
        ELSE IF is_none(feed_publisher_url)
        THEN Err("missing field feed_publisher_url")
        ELSE IF unwrap(feed_publisher_url) \notin Urls
        THEN Err("relative URL without a base")
        ELSE IF is_none(feed_lang) THEN Err("missing field feed_lang")
        ELSE IF unwrap(feed_lang) \notin LanguageTags
        THEN Err("invalid language tag")
        ELSE Ok([FeedInfo(unwrap(feed_lang)) EXCEPT
                    !.feed_publisher_name = unwrap(feed_publisher_name)])

\* The files of CSV_FILES (dataset.rs 9-39) the model has tables for.
CSV_FILES ==
    {"stops.txt", "levels.txt", "location_groups.txt",
     "location_groups_stops.txt", "feed_info.txt"}

\* The arm of match file_name (dataset.rs 2184-2422) that deserializes.
DeserializeRecord(file_name, header, cells) ==
    CASE file_name = "stops.txt" -> DeserializeStop(header, cells)
      [] file_name = "levels.txt" -> DeserializeLevel(header, cells)
      [] file_name = "location_groups.txt" ->
            DeserializeLocationGroup(header, cells)
      [] file_name = "location_groups_stops.txt" ->
            DeserializeLocationGroupStop(header, cells)
      [] file_name = "feed_info.txt" -> DeserializeFeedInfo(header, cells)

InsertedUnlessPresent(table, key, record) ==
    [ k \in DOMAIN table \cup {key} |->
        IF k \in DOMAIN table THEN table[k] ELSE record ]

\* DashMap::insert: the record takes the place of the one the key had.
Inserted(table, key, record) ==
    [ k \in DOMAIN table \cup {key} |->
        IF k = key THEN record ELSE table[k] ]

\* and the arm's insert, push or assignment.
InsertRecord(dataset, file_name, record) ==
    CASE file_name = "stops.txt" ->
            [dataset EXCEPT !.stops = Inserted(@, record.stop_id, record)]
      [] file_name = "levels.txt" ->
            [dataset EXCEPT !.levels = Inserted(@, record.level_id, record)]
      [] file_name = "location_groups.txt" ->
            [dataset EXCEPT !.location_groups =
                Inserted(@, record.location_group_id, record)]
      [] file_name = "location_groups_stops.txt" ->
            [dataset EXCEPT !.location_groups_stops = Append(@, record)]
      [] file_name = "feed_info.txt" ->
            [dataset EXCEPT !.feed_info = Some(record)]

\* ParseError without and with the context frame of wrap_err_with_context.
CsvError(context) == Err([kind |-> "Csv", context |-> context])

\* One turn of the loop over reader.records() on a file (dataset.rs
\* 2173-2422): the outcome and the dataset it leaves.  The closure
\* wrap_err_with_context runs when deserialize fails and takes the cell
\* whose index is the record number.
LoadRecord(dataset, file_name, header, cells, record_number) ==
    IF Len(cells) # Len(header)
    THEN [res |-> CsvError(<<>>), dataset |-> dataset]
    ELSE IF DeserializeRecord(file_name, header, cells).tag = "Ok"
    THEN [res |-> OkUnit,
          dataset |->
              InsertRecord(dataset, file_name,
                           DeserializeRecord(file_name, header, cells).val)]
    ELSE IF record_number < Len(cells)
    THEN [res |-> CsvError(<<[file |-> file_name,
                              position |-> record_number,
                              cell |-> cells[record_number + 1]]>>),
          dataset |-> dataset]
    ELSE [res |-> Panic("called Option::unwrap() on a None value"),
          dataset |-> dataset]

(***************************************************************************)
(* Dataset::validate as a state machine.  The row stage and the agencies   *)
(* are one step, each turn of the parent-chain loop is one step, and the   *)
(* stages after the loop over stops are one step.                          *)
(***************************************************************************)
\* The longest parent_chain the model follows.
MaxChain == 6

Finish(outcome) ==
    /\ result' = outcome
    /\ pc' = "done"
    /\ pending' = {}
    /\ walk' = None

\* dataset.rs 254-427
ValidateStart ==
    /\ pc = "start"
    /\ \E row \in RowStage(ds) :
          /\ ds' = [ds EXCEPT !.stop_times = row.stop_times]
          /\ IF row.res # OkUnit
             THEN Finish(row.res)
             ELSE \E outcome \in AgencyStage(ds) :
                     IF outcome # OkUnit
                     THEN Finish(outcome)
                     ELSE /\ pc' = "stops"
                          /\ pending' = DOMAIN ds.stops
                          /\ UNCHANGED <<walk, result>>
    /\ station_ids' = {}
    /\ UNCHANGED <<t_in, t_out, env, loadVars, queryVars>>

\* The end of a turn of the loop over stops (dataset.rs 471-503).
EndOfStop(stop_id, stations) ==
    LET outcome == StopAfterWalk(ds, ds.stops[stop_id], stations) IN
    /\ station_ids' = stations
    /\ IF outcome # OkUnit
       THEN Finish(outcome)
       ELSE /\ pc' = "stops"
            /\ pending' = pending \ {stop_id}
            /\ walk' = None
            /\ UNCHANGED result

\* for stop in self.stops.iter(): the next stop of the iteration; a stop
\* with a parent_station enters the parent-chain loop (dataset.rs 438-442).
StopsNext ==
    /\ pc = "stops"
    /\ \E stop_id \in pending :
          IF is_some(ds.stops[stop_id].parent_station)
          THEN /\ pc' = "walk"
               /\ walk' = Some([stop |-> stop_id,
                                current_parent_id |->
                                    unwrap(ds.stops[stop_id].parent_station),
                                parent_chain |-> <<ds.stops[stop_id]>>])
               /\ UNCHANGED <<pending, station_ids, result>>
          ELSE EndOfStop(stop_id, station_ids)
    /\ UNCHANGED <<t_in, t_out, ds, env, loadVars, queryVars>>

\* One turn of the parent-chain loop (dataset.rs 443-468).
WalkStep ==
    /\ pc = "walk"
    /\ Len(unwrap(walk).parent_chain) < MaxChain
    /\ LET w == unwrap(walk)
           current_parent_id == w.current_parent_id
       IN
       IF current_parent_id \notin DOMAIN ds.stops
       THEN /\ Finish(DatasetValidationError("foreign-key-not-found",
                          "parent_station", w.parent_chain))
            /\ UNCHANGED station_ids
       ELSE LET parent == ds.stops[current_parent_id]
                parent_chain == Append(w.parent_chain, parent)
            IN
            IF parent.location_type = Some("Station")
            THEN EndOfStop(w.stop, station_ids \cup {current_parent_id})
            ELSE IF is_none(parent.parent_station)
            THEN /\ Finish(DatasetValidationError("inconsistent-value",
                               "location_type", parent_chain))
                 /\ UNCHANGED station_ids
            ELSE /\ walk' = Some([w EXCEPT
                            !.current_parent_id = unwrap(parent.parent_station),
                            !.parent_chain = parent_chain])
                 /\ UNCHANGED <<pc, pending, station_ids, result>>
    /\ UNCHANGED <<t_in, t_out, ds, env, loadVars, queryVars>>

\* dataset.rs 515-2144
ValidateRest ==
    /\ pc = "stops"
    /\ pending = {}
    /\ \E outcome \in StagesAfterStops(ds, env) : Finish(outcome)
    /\ UNCHANGED <<t_in, t_out, ds, env, station_ids, loadVars, queryVars>>

\* A second call of validate on the dataset a first call accepted.  The
\* tables are the maps the first call iterated, unchanged but for the
\* values the loop over stop_times.iter_mut() assigns, so they yield their
\* records in the order of the first call and every step that reads only
\* them succeeds as it did; the set of languages of the step on feed_info
\* (dataset.rs 2013-2018) is built anew, with a new hasher.
ValidateAgain ==
    /\ pc = "done"
    /\ result = OkUnit
    /\ \E row \in RowStage(ds) :
          /\ ds' = [ds EXCEPT !.stop_times = row.stop_times]
          /\ IF row.res # OkUnit
             THEN result' = row.res
             ELSE \E outcome \in FeedInfoStage(ds) : result' = outcome
    /\ pc' = "again"
    /\ UNCHANGED <<pending, walk, station_ids, t_in, t_out, env, loadVars,
                   queryVars>>

ValidateNext ==
    ValidateStart \/ StopsNext \/ WalkStep \/ ValidateRest \/ ValidateAgain


\* The datasets validate is called on without the environment variable.
IsDataset(d) ==
    \/ d \in StopsFamily \/ d \in StopTimesFamily
    \/ d \in TripReferencesFamily \/ d \in AgencyReferencesFamily
    \/ d \in StopReferencesFamily \/ d \in TimeframesFamily
    \/ d \in TranslationsFamily \/ d \in FeedLangFamily
    \/ d \in AgenciesFamily \/ d \in FareTransfersFamily
    \/ d \in PathwaysFamily \/ d \in LocationGroupsFamily
    \/ d \in ShapesFamily \/ d \in PickupFamily
    \/ d \in TranslatedStopTimesFamily
    \/ d \in MultilingualFamily
    \/ d \in StopTimeRowsFamily
    \/ d \in BookingRulesFamily

ValidateInit ==
    /\ \/ /\ IsDataset(ds)
          /\ env = None
       \/ /\ ds \in CalendarFamily
          /\ env \in EnvironmentValues
    /\ pc = "start"
    /\ pending = {}
    /\ walk = None
    /\ station_ids = {}
    /\ result = [tag |-> "None"]
    /\ t_in = [op |-> "none"]
    /\ t_out = [op |-> "none"]
    /\ NotLoading
    /\ NotQuerying

SpecValidate == ValidateInit /\ [][ValidateNext]_vars


(***************************************************************************)
(* Dataset::from_csv as a state machine: the directory is listed, each     *)
(* recognized file is opened in turn, and each of its records is one step. *)
(***************************************************************************)
\* The longest file of the model, in rows.
MaxRows == 3

Headers ==
    { <<"level_id", "level_index">>,
      <<"level_id", "level_index", "level_name">>,
      <<"level_name", "level_id">> }

\* The rows a file with this header can hold: a cell for each column, the
\* level_index a number or not, and a row that is one cell short.
RowChoices(header) ==
    { [ i \in 1..Len(header) |->
          CASE header[i] = "level_id" -> level_id
            [] header[i] = "level_index" -> level_index
            [] header[i] = "level_name" -> "M" ] :
        level_id \in {"L1", "L2"}, level_index \in {"0", "-1", "x"} }
    \cup { <<"L1">> }

LevelsFiles ==
    UNION { { [name |-> "levels.txt", header |-> header, rows |-> rows] :
              rows \in UNION { [1..n -> RowChoices(header)] :
                               n \in 0..MaxRows } } :
            header \in Headers }

\* The longest file of a directory of several files, in rows.
MaxKeyedRows == 2

\* A file of the given name and header with up to MaxKeyedRows rows.
Files(name, header, rows) ==
    { [name |-> name, header |-> header, rows |-> r] :
        r \in UNION { [1..n -> rows] : n \in 0..MaxKeyedRows } }

StopsFiles ==
    Files("stops.txt", <<"stop_id", "stop_name">>,
          { <<"s1", "Quai">>, <<"s1", "Gare">>, <<"s2", "Quai">> })

LocationGroupsFiles ==
    Files("location_groups.txt",
          <<"location_group_id", "location_group_name">>,
          { <<"lg1", "">>, <<"lg1", "Zone">>, <<"s1", "Zone">> })

LocationGroupsStopsFiles ==
    Files("location_groups_stops.txt", <<"location_group_id", "stop_id">>,
          { <<"lg1", stop_id>> : stop_id \in {"s1", "s2"} })

FeedInfoFiles ==
    Files("feed_info.txt",
          <<"feed_publisher_name", "feed_publisher_url", "feed_lang">>,
          { <<"publisher", "http://p", feed_lang>> :
              feed_lang \in {"fr", "en", "?"} })

\* A directory holds levels.txt, a short one also with a file that is not
\* of CSV_FILES, or two of the other files, or nothing.
Directories ==
    { {file} : file \in LevelsFiles }
    \cup { {file, [name |-> "README.txt", header |-> <<>>, rows |-> <<>>]} :
              file \in { f \in LevelsFiles : Len(f.rows) <= 1 } }
    \cup { {stops, location_groups} :
              stops \in StopsFiles, location_groups \in LocationGroupsFiles }
    \cup { {location_groups_stops, feed_info} :
              location_groups_stops \in LocationGroupsStopsFiles,
              feed_info \in FeedInfoFiles }
    \cup { {} }

LoadInit ==
    /\ dir \in Directories
    /\ files = None
    /\ reader = None
    /\ loaded = EmptyDataset
    /\ load_result = [tag |-> "None"]
    /\ t_in = [op |-> "none"]
    /\ t_out = [op |-> "none"]
    /\ ds = [tables |-> "none"]
    /\ env = None
    /\ pc = "idle"
    /\ pending = {}
    /\ walk = None
    /\ station_ids = {}
    /\ result = [tag |-> "None"]
    /\ NotQuerying

\* read_dir and the filter on CSV_FILES (dataset.rs 2151-2160): the
\* recognized files, in the order the directory lists them.
ReadDir ==
    /\ load_result.tag = "None"
    /\ files = None
    /\ \E listing \in [1..Cardinality({ f \in dir : f.name \in CSV_FILES })
                        -> { f \in dir : f.name \in CSV_FILES }] :
          /\ \A i, j \in DOMAIN listing : i # j => listing[i] # listing[j]
          /\ files' = Some(listing)
    /\ UNCHANGED <<dir, reader, loaded, load_result, timeVars, validateVars,
                   queryVars>>

\* csv::Reader::from_path and reader.headers() (dataset.rs 2165-2172)
OpenFile ==
    /\ load_result.tag = "None"
    /\ is_some(files) /\ unwrap(files) # <<>>
    /\ reader = None
    /\ reader' = Some([file |-> Head(unwrap(files)), record_number |-> 1])
    /\ files' = Some(Tail(unwrap(files)))
    /\ UNCHANGED <<dir, loaded, load_result, timeVars, validateVars,
                   queryVars>>

\* One record of reader.records() (dataset.rs 2173-2422)
ReadRecord ==
    /\ load_result.tag = "None"
    /\ is_some(reader)
    /\ unwrap(reader).record_number <= Len(unwrap(reader).file.rows)
    /\ LET r == unwrap(reader)
           turn == LoadRecord(loaded, r.file.name, r.file.header,
                              r.file.rows[r.record_number], r.record_number)
       IN  IF turn.res = OkUnit
           THEN /\ loaded' = turn.dataset
                /\ reader' = Some([r EXCEPT !.record_number = @ + 1])
                /\ UNCHANGED load_result
           ELSE /\ load_result' = turn.res
                /\ UNCHANGED <<loaded, reader>>
    /\ UNCHANGED <<dir, files, timeVars, validateVars, queryVars>>

\* The end of reader.records()
CloseFile ==
    /\ load_result.tag = "None"
    /\ is_some(reader)
    /\ unwrap(reader).record_number > Len(unwrap(reader).file.rows)
    /\ reader' = None
    /\ UNCHANGED <<dir, files, loaded, load_result, timeVars, validateVars,
                   queryVars>>

\* Ok(dataset) (dataset.rs 2425)
ReturnDataset ==
    /\ load_result.tag = "None"
    /\ files = Some(<<>>)
    /\ reader = None
    /\ load_result' = Ok(loaded)
    /\ UNCHANGED <<dir, files, reader, loaded, timeVars, validateVars,
                   queryVars>>

LoadNext == ReadDir \/ OpenFile \/ ReadRecord \/ CloseFile \/ ReturnDataset

SpecLoad == LoadInit /\ [][LoadNext]_vars

(***************************************************************************)
(* The queries of the dataset (dataset.rs 2428-2483), each a call on a     *)
(* dataset with the identifier of one of its records.                      *)
(***************************************************************************)
\* Dataset::stop_get_parent_station: find yields the first stop the
\* iteration of the map meets whose parent_station is stop_id, any of them.
stop_get_parent_station(d, stop_id) ==
    LET found == { stop \in Values(d.stops) :
                       stop.parent_station = Some(stop_id) }
    IN  IF found = {} THEN {None} ELSE { Some(stop) : stop \in found }

QueryInit ==
    /\ ds \in StopsFamily
    /\ q_in \in { [op |-> "stop_get_parent_station", stop_id |-> stop_id] :
                    stop_id \in DOMAIN ds.stops }
    /\ q_out = [op |-> "none"]
    /\ env = None
    /\ pc = "idle"
    /\ pending = {}
    /\ walk = None
    /\ station_ids = {}
    /\ result = [tag |-> "None"]
    /\ t_in = [op |-> "none"]
    /\ t_out = [op |-> "none"]
    /\ NotLoading

StopGetParentStation ==
    /\ q_out = [op |-> "none"]
    /\ \E value \in stop_get_parent_station(ds, q_in.stop_id) :
          q_out' = [op |-> "stop_get_parent_station", value |-> value]
    /\ UNCHANGED <<q_in, timeVars, validateVars, loadVars>>

QueryNext == StopGetParentStation

SpecQuery == QueryInit /\ [][QueryNext]_vars

(***************************************************************************)
(* Claims about the service-day time                                       *)
(***************************************************************************)
\* What a text of the form H:M:S denotes: its three numbers.
Denoted(s) == [ i \in 1..Len(Split(s, ":")) |-> ParseU32(Split(s, ":")[i]) ]

SaturatedSeconds == 47 * 3600 + 59 * 60 + 59

\* C2: a < b holds exactly when the seconds since midnight of the service
\* day of a (hour + 24 under the overflow flag) are fewer than those of b,
\* and cmp returns Equal only for values that are ==.
C2_OrderBySecondsOfServiceDay ==
    t_out.op = "cmp" =>
        /\ (t_out.ordering = "Less")
              <=> (ServiceSeconds(t_in.a) < ServiceSeconds(t_in.b))
        /\ (t_out.ordering = "Equal") => t_out.equal

\* C3: a valid literal HH:MM:SS with hours 0..47 parses, and the parsed
\* value converted back to text denotes the same hour, minute and second.
C3_TextRoundTrip ==
    (t_out.op = "roundtrip" /\ t_in.lit \in TimeLiterals) =>
        /\ t_out.parsed.tag = "Ok"
        /\ Denoted(t_out.text) = Denoted(t_in.lit)

\* C4: t + d is the service time of seconds(t) + d when that is below 48h,
\* and 47:59:59 otherwise.
C4_AddSaturates ==
    t_out.op = "add" =>
        ServiceSeconds(t_out.sum) =
            IF ServiceSeconds(t_in.a) + t_in.d <= SaturatedSeconds
            THEN ServiceSeconds(t_in.a) + t_in.d
            ELSE SaturatedSeconds

(***************************************************************************)
(* Claims about the stops of a dataset                                     *)
(***************************************************************************)
NumberOfStops == Cardinality(DOMAIN ds.stops)

\* C1: validate terminates on every finite dataset, cycles of parent_station
\* links among non-station stops included: the parent-chain walk of a stop
\* never visits more stops than the dataset has.
C1_WalkVisitsAtMostNStops ==
    pc = "walk" => Len(unwrap(walk).parent_chain) - 1 <= NumberOfStops

\* The stop stop_id exists and is a station, or leads to one by at most
\* steps further parent_station links.
RECURSIVE ReachesStation(_, _, _)
ReachesStation(stops, stop_id, steps) ==
    /\ stop_id \in DOMAIN stops
    /\ \/ stops[stop_id].location_type = Some("Station")
       \/ /\ steps > 0
          /\ is_some(stops[stop_id].parent_station)
          /\ ReachesStation(stops, unwrap(stops[stop_id].parent_station),
                            steps - 1)

\* C6: whenever validate returns Ok, every entrance, generic node and
\* boarding area has a parent_station, no station has one, and from every
\* stop with a parent_station the parent_station links lead, through
\* existing stops only, to a station within as many steps as there are stops.
C6_StationTopology ==
    (pc = "done" /\ result = OkUnit) =>
        \A stop \in Values(ds.stops) :
            /\ stop.location_type \in
                    {Some("EntranceOrExit"), Some("GenericNode"),
                     Some("BoardingArea")}
                => is_some(stop.parent_station)
            /\ stop.location_type = Some("Station")
                => is_none(stop.parent_station)
            /\ is_some(stop.parent_station)
                => ReachesStation(ds.stops, unwrap(stop.parent_station),
                                  NumberOfStops - 1)

\* validate returned Ok on a dataset where a boarding area hangs below a
\* platform that hangs below a station.
C6_OkWithTwoLinkChain ==
    /\ pc = "done"
    /\ result = OkUnit
    /\ \E stop \in Values(ds.stops) :
          /\ stop.location_type = Some("BoardingArea")
          /\ is_some(stop.parent_station)
          /\ unwrap(stop.parent_station) \in DOMAIN ds.stops
          /\ ds.stops[unwrap(stop.parent_station)].location_type
                = Some("StopOrPlatform")
          /\ is_some(ds.stops[unwrap(stop.parent_station)].parent_station)

(***************************************************************************)
(* Claims about stop_times                                                 *)
(***************************************************************************)
\* Every stop_time has an arrival_time, a stop and a trip that exist, and
\* the arrival times of one trip differ, so that listing a trip by arrival
\* time is one definite list.
ListedByArrival(d) ==
    /\ \A a \in Values(d.stop_times) :
          /\ is_some(a.arrival_time)
          /\ a.trip_id \in DOMAIN d.trips
          /\ is_some(a.stop_id) /\ unwrap(a.stop_id) \in DOMAIN d.stops
    /\ \A a, b \in Values(d.stop_times) :
          (a # b /\ a.trip_id = b.trip_id)
          => ServiceSeconds(unwrap(a.arrival_time))
                # ServiceSeconds(unwrap(b.arrival_time))

Earlier(a, b) ==
    /\ a.trip_id = b.trip_id
    /\ ServiceSeconds(unwrap(a.arrival_time))
          < ServiceSeconds(unwrap(b.arrival_time))

SequencesIncrease(d) ==
    \A a, b \in Values(d.stop_times) :
        Earlier(a, b) => a.stop_sequence < b.stop_sequence

DistancesIncrease(d) ==
    \A a, b \in Values(d.stop_times) :
        (/\ Earlier(a, b)
         /\ is_some(a.shape_dist_traveled)
         /\ is_some(b.shape_dist_traveled))
        => unwrap(a.shape_dist_traveled) < unwrap(b.shape_dist_traveled)

\* The outcome is the inconsistent-value error the stop_times step returns
\* on this field.
StopTimesRejected(outcome, field) ==
    /\ outcome.tag = "Err"
    /\ outcome.val.kind = "inconsistent-value"
    /\ outcome.val.field = field
    /\ outcome.val.records \in Seq(Values(ds.stop_times))

\* C5: the stop_times step succeeds exactly when, listing each trip's
\* stop_times by arrival time in service-day order, stop_sequence and the
\* present shape_dist_traveled strictly increase; a violation is reported
\* as inconsistent-value on stop_sequence, resp. shape_dist_traveled.
C5_StopTimesMonotone ==
    (pc = "done" /\ ListedByArrival(ds)) =>
        /\ result = OkUnit
            => (SequencesIncrease(ds) /\ DistancesIncrease(ds))
        /\ StopTimesRejected(result, "stop_sequence")
            => ~SequencesIncrease(ds)
        /\ StopTimesRejected(result, "shape_dist_traveled")
            => ~DistancesIncrease(ds)

(***************************************************************************)
(* Claims about the references between the tables                          *)
(***************************************************************************)
AgencyExists(d, agency_id) ==
    \E agency \in Elems(d.agencies) : agency.agency_id = Some(agency_id)

ServiceExists(d, service_id) ==
    \/ service_id \in DOMAIN d.calendar
    \/ \E calendar_date \in Values(d.calendar_dates) :
          calendar_date.service_id = service_id

\* Every identifier a record of the model carries points to a record of the
\* table it refers to.
ReferencesResolve(d) ==
    /\ \A stop \in Values(d.stops) :
          /\ is_some(stop.parent_station)
                => unwrap(stop.parent_station) \in DOMAIN d.stops
          /\ is_some(stop.level_id)
                => unwrap(stop.level_id) \in DOMAIN d.levels
    /\ \A route \in Values(d.routes) :
          is_some(route.agency_id) => AgencyExists(d, unwrap(route.agency_id))
    /\ \A trip \in Values(d.trips) :
          /\ trip.route_id \in DOMAIN d.routes
          /\ ServiceExists(d, trip.service_id)
          /\ is_some(trip.shape_id)
                => \E shape \in Values(d.shapes) :
                      shape.shape_id = unwrap(trip.shape_id)
    /\ \A stop_time \in Values(d.stop_times) :
          /\ stop_time.trip_id \in DOMAIN d.trips
          /\ is_some(stop_time.stop_id)
                => unwrap(stop_time.stop_id) \in DOMAIN d.stops
    /\ \A frequency \in Values(d.frequencies) :
          frequency.trip_id \in DOMAIN d.trips
    /\ \A fare_attribute \in Values(d.fare_attributes) :
          is_some(fare_attribute.agency_id)
            => AgencyExists(d, unwrap(fare_attribute.agency_id))
    /\ \A timeframe \in Elems(d.timeframes) :
          ServiceExists(d, timeframe.service_id)

\* C7: whenever validate returns Ok, every present foreign-key field of
\* every record points to an existing record of its referenced table,
\* trips.shape_id and, with a single agency, routes.agency_id and
\* fare_attributes.agency_id included.
C7_ReferencesResolveAfterOk ==
    (pc = "done" /\ result = OkUnit) => ReferencesResolve(ds)

(***************************************************************************)
(* Claims about timeframes                                                 *)
(***************************************************************************)
\* The half-open intervals [start_time, end_time) of two timeframes with
\* both endpoints have a time of day in common.
HalfOpenIntersect(timeframe1, timeframe2) ==
    LET start1 == num_seconds_from_midnight(unwrap(timeframe1.start_time))
        end1 == num_seconds_from_midnight(unwrap(timeframe1.end_time))
        start2 == num_seconds_from_midnight(unwrap(timeframe2.start_time))
        end2 == num_seconds_from_midnight(unwrap(timeframe2.end_time))
        latest_start == IF start1 > start2 THEN start1 ELSE start2
        earliest_end == IF end1 < end2 THEN end1 ELSE end2
    IN  latest_start < earliest_end

SameGroup(timeframe1, timeframe2) ==
    /\ timeframe1.timeframe_group_id = timeframe2.timeframe_group_id
    /\ timeframe1.service_id = timeframe2.service_id

BothEndpoints(timeframe) ==
    is_some(timeframe.start_time) /\ is_some(timeframe.end_time)

\* C8: within a (timeframe_group_id, service_id) group validate reports
\* overlapping-intervals for two timeframes with both endpoints exactly when
\* their half-open intervals intersect: intervals sharing only an endpoint
\* and empty intervals are not overlaps.
C8_OverlapIffHalfOpenIntersect ==
    pc = "done" =>
        /\ (result.tag = "Err" /\ result.val.kind = "overlapping-intervals")
            => HalfOpenIntersect(result.val.records[1], result.val.records[2])
        /\ result = OkUnit
            => \A i, j \in 1..Len(ds.timeframes) :
                  (/\ i < j
                   /\ SameGroup(ds.timeframes[i], ds.timeframes[j])
                   /\ BothEndpoints(ds.timeframes[i])
                   /\ BothEndpoints(ds.timeframes[j]))
                  => ~HalfOpenIntersect(ds.timeframes[i], ds.timeframes[j])

(***************************************************************************)
(* Claims about the way validate fails                                     *)
(***************************************************************************)
\* C9: validate returns Ok or an Err value for every dataset and never
\* aborts by panic, translations whose record_sub_id does not parse for its
\* table included.
C9_ValidateNeverPanics == result.tag # "Panic"

(***************************************************************************)
(* Claims about the loader                                                 *)
(***************************************************************************)
\* The rows of a file that the loader cannot turn into a record.
FailingRows(file) ==
    { i \in 1..Len(file.rows) :
        \/ Len(file.rows[i]) # Len(file.header)
        \/ DeserializeRecord(file.name, file.header, file.rows[i]).tag
               = "Err" }

FirstFailingRow(file) ==
    CHOOSE i \in FailingRows(file) : \A j \in FailingRows(file) : i <= j

\* C10: for a recognized file and a data row, at any record number and
\* with any number of columns, whose cells fail to deserialize, from_csv
\* returns Err(ParseError) with a context frame naming the file and the
\* position of the failing record; it does not panic and returns no
\* dataset.
C10_FailingRowIsErrWithContext ==
    \A file \in dir :
        (/\ load_result.tag # "None"
         /\ file.name \in CSV_FILES
         /\ FailingRows(file) # {}
         /\ Len(file.rows[FirstFailingRow(file)]) = Len(file.header))
        => /\ load_result.tag = "Err"
           /\ Len(load_result.val.context) = 1
           /\ load_result.val.context[1].file = file.name
           /\ load_result.val.context[1].position = FirstFailingRow(file)

(***************************************************************************)
(* Claims about the stages of validate                                     *)
(***************************************************************************)
\* Some record of the dataset fails the validate of its own schema.
SomeRecordFailsItsValidate(d) ==
    \/ \E r \in Elems(d.agencies) : AgencyValidate(r) # OkUnit
    \/ \E r \in Values(d.stops) : StopValidate(r) # OkUnit
    \/ \E r \in Values(d.routes) : RouteValidate(r) # OkUnit
    \/ \E r \in Values(d.trips) : TripValidate(r) # OkUnit
    \/ \E r \in Values(d.stop_times) : StopTimeValidate(r).res # OkUnit
    \/ \E r \in Values(d.calendar) : CalendarValidate(r) # OkUnit
    \/ \E r \in Values(d.calendar_dates) : CalendarDateValidate(r) # OkUnit
    \/ \E r \in Values(d.fare_attributes) : FareAttributeValidate(r) # OkUnit
    \/ \E r \in Elems(d.timeframes) : TimeframeValidate(r) # OkUnit
    \/ \E r \in Elems(d.fare_transfers) : FareTransferRuleValidate(r) # OkUnit
    \/ \E r \in Values(d.shapes) : ShapeValidate(r) # OkUnit
    \/ \E r \in Values(d.frequencies) : FrequencyValidate(r) # OkUnit
    \/ \E r \in Values(d.pathways) : PathwayValidate(r) # OkUnit
    \/ \E r \in Values(d.levels) : LevelValidate(r) # OkUnit
    \/ \E r \in Values(d.location_groups) : LocationGroupValidate(r) # OkUnit
    \/ \E r \in Elems(d.location_groups_stops) :
           LocationGroupStopValidate(r) # OkUnit
    \/ \E r \in Values(d.booking_rules) : BookingRuleValidate(r) # OkUnit
    \/ \E r \in Elems(d.translations) : TranslationValidate(r) # OkUnit
    \/ is_some(d.feed_info) /\ FeedInfoValidate(unwrap(d.feed_info)) # OkUnit

IsSchemaError(outcome) == outcome.tag = "Err" /\ outcome.val.arm = "Schema"

IsDatasetError(outcome) == outcome.tag = "Err" /\ outcome.val.arm = "Dataset"

\* The outcomes of validate on a dataset whose stops have no
\* parent_station: the loop over stops never enters the parent-chain loop.
ValidateWithoutParents(dataset, variable) ==
    AndThen({ row.res : row \in RowStage(dataset) },
    AndThen(AgencyStage(dataset),
    AndThen(ForEach(Values(dataset.stops),
                    LAMBDA stop : StopAfterWalk(dataset, stop, {})),
            StagesAfterStops(dataset, variable))))

\* C12: validate calls the row validator of every record of every table:
\* a dataset with a record whose own validate fails, an agency with an empty
\* agency_id and a fare transfer rule whose transfer_count contradicts the
\* equality of its leg groups included, is rejected with a schema-validation
\* error.
C12_EveryFailingRecordIsRejected ==
    (pc = "done" /\ SomeRecordFailsItsValidate(ds)) => IsSchemaError(result)

\* The dataset-level stages the model has as operators, in the order of the
\* steps of the specification (the stops come between the first and the
\* second).
StagesInStepOrder(d, variable) ==
    << AgencyStage(d), RoutesStage(d), TripsStage(d), StopTimesStage(d),
       CalendarStage(d, variable), FareAttributesStage(d), TimeframesStage(d),
       FareTransfersStage(d), ShapesStage(d), FrequenciesStage(d),
       PathwaysStage(d), LocationGroupsStage(d), LocationGroupStopsStage(d),
       BookingRulesStage(d), TranslationsStage(d), FeedInfoStage(d) >>

\* C11: validate reports the failure of the earliest stage: a failure of a
\* record's own validate is reported in preference to every dataset-level
\* failure, and a dataset-level failure is reported by a stage only if
\* every stage of a lower step can succeed.
C11_EarliestStageIsReported ==
    pc = "done" =>
        /\ SomeRecordFailsItsValidate(ds) => IsSchemaError(result)
        /\ LET stages == StagesInStepOrder(ds, env) IN
           (IsDatasetError(result)
                /\ \E k \in 1..Len(stages) : result \in stages[k])
           => \E k \in 1..Len(stages) :
                  /\ result \in stages[k]
                  /\ \A j \in 1..(k - 1) : OkUnit \in stages[j]

(***************************************************************************)
(* Claims about shapes                                                     *)
(***************************************************************************)
\* Two points of one shape that carry a distance and follow one another in
\* the order of shape_pt_sequence among the points that carry one.
AdjacentMeasuredPoints(d, prev, curr) ==
    /\ prev \in Values(d.shapes) /\ curr \in Values(d.shapes)
    /\ is_some(prev.shape_dist_traveled) /\ is_some(curr.shape_dist_traveled)
    /\ prev.shape_id = curr.shape_id
    /\ prev.shape_pt_sequence < curr.shape_pt_sequence
    /\ \A mid \in Values(d.shapes) :
           (/\ mid.shape_id = prev.shape_id
            /\ is_some(mid.shape_dist_traveled))
           => ~(/\ prev.shape_pt_sequence < mid.shape_pt_sequence
                /\ mid.shape_pt_sequence < curr.shape_pt_sequence)

\* The distance strictly increases from prev to curr.
DistanceIncreases(prev, curr) ==
    f32_lt(unwrap(prev.shape_dist_traveled), unwrap(curr.shape_dist_traveled))

DistancesIncreaseAlongShapes(d) ==
    \A prev \in Values(d.shapes), curr \in Values(d.shapes) :
        AdjacentMeasuredPoints(d, prev, curr) => DistanceIncreases(prev, curr)

IsShapeDistanceError(outcome) ==
    /\ IsDatasetError(outcome)
    /\ outcome.val.kind = "inconsistent-value"
    /\ outcome.val.field = "shape_dist_traveled"
    /\ Len(outcome.val.records) = 2

\* C13: the step of validate on shapes succeeds if and only if, for every
\* shape_id, the points that carry a shape_dist_traveled, taken by
\* increasing shape_pt_sequence, have strictly increasing distances: a
\* dataset validate accepts has them, and the failure inconsistent-value on
\* shape_dist_traveled is reported only for, and carries, two adjacent
\* points whose distance does not increase.
C13_ShapeDistancesIncrease ==
    pc = "done" =>
        /\ result = OkUnit => DistancesIncreaseAlongShapes(ds)
        /\ IsShapeDistanceError(result) =>
              /\ AdjacentMeasuredPoints(ds, result.val.records[1],
                                        result.val.records[2])
              /\ ~DistanceIncreases(result.val.records[1],
                                    result.val.records[2])

(***************************************************************************)
(* Claims about what from_csv loads                                        *)
(***************************************************************************)
MappingFiles == {"stops.txt", "levels.txt", "location_groups.txt"}

SequenceFiles == {"location_groups_stops.txt"}

\* The table a file is loaded into, and the key of a record of a mapping
\* table.
TableOf(dataset, file_name) ==
    CASE file_name = "stops.txt" -> dataset.stops
      [] file_name = "levels.txt" -> dataset.levels
      [] file_name = "location_groups.txt" -> dataset.location_groups
      [] file_name = "location_groups_stops.txt" ->
            dataset.location_groups_stops

KeyOf(file_name, record) ==
    CASE file_name = "stops.txt" -> record.stop_id
      [] file_name = "levels.txt" -> record.level_id
      [] file_name = "location_groups.txt" -> record.location_group_id

\* The record of row i of a file.
RecordOf(file, i) ==
    DeserializeRecord(file.name, file.header, file.rows[i]).val

\* The last row of the file whose record has this key.
LastRowWithKey(file, key) ==
    CHOOSE i \in 1..Len(file.rows) :
        /\ KeyOf(file.name, RecordOf(file, i)) = key
        /\ \A j \in (i + 1)..Len(file.rows) :
               KeyOf(file.name, RecordOf(file, j)) # key

\* The tables of the dataset hold what the files of the directory say: a
\* mapping table the last row of each key, a sequence table every row in
\* the order of the file, feed_info the last row of feed_info.txt.
LoadedAsTheFilesSay(dataset) ==
    \A file \in dir :
        /\ file.name \in MappingFiles =>
              LET table == TableOf(dataset, file.name)
                  keys == { KeyOf(file.name, RecordOf(file, i)) :
                              i \in 1..Len(file.rows) }
              IN  /\ DOMAIN table = keys
                  /\ \A key \in keys :
                         table[key]
                             = RecordOf(file, LastRowWithKey(file, key))
        /\ file.name \in SequenceFiles =>
              TableOf(dataset, file.name)
                  = [ i \in 1..Len(file.rows) |-> RecordOf(file, i) ]
        /\ file.name = "feed_info.txt" =>
              dataset.feed_info
                  = IF file.rows = <<>> THEN None
                    ELSE Some(RecordOf(file, Len(file.rows)))

\* The outcomes of validate on what from_csv loaded, under some value of
\* the environment variable; the stops from_csv loads in the model have no
\* parent_station.
ValidateLoaded(dataset) ==
    UNION { ValidateWithoutParents(dataset, variable) :
            variable \in EnvironmentValues }

IsPrimaryKeyNotUnique(outcome) ==
    IsDatasetError(outcome) /\ outcome.val.kind = "primary-key-not-unique"

\* C14 as stated: after from_csv succeeds each mapping table holds the last
\* row of each key of its file, each sequence table all the rows of its
\* file in file order and feed_info the last row of feed_info.txt, and a
\* later validate never reports primary-key-not-unique for a table stored as
\* a mapping.
C14_LoadedAndNeverPrimaryKeyNotUnique ==
    load_result.tag = "Ok" =>
        /\ LoadedAsTheFilesSay(load_result.val)
        /\ \A outcome \in ValidateLoaded(load_result.val) :
               ~IsPrimaryKeyNotUnique(outcome)

\* C14, amended: the tables hold what the claim says, and a later validate
\* reports primary-key-not-unique for a table stored as a mapping only on
\* location_group_id, for a location group whose identifier is also the
\* stop_id of a stop, never for two rows of one file that share a key.
C14_LoadedAndPrimaryKeyOnlyAcrossTables ==
    load_result.tag = "Ok" =>
        /\ LoadedAsTheFilesSay(load_result.val)
        /\ \A outcome \in ValidateLoaded(load_result.val) :
               IsPrimaryKeyNotUnique(outcome) =>
                   /\ outcome.val.field = "location_group_id"
                   /\ outcome.val.records[1].location_group_id
                          \in DOMAIN load_result.val.stops

\* from_csv succeeded on a file of a mapping table with two different rows
\* of one key, and validate reports the identifier a location group shares
\* with a stop.
C14_LoadedWithRepeatedKey ==
    /\ load_result.tag = "Ok"
    /\ \E file \in dir :
          /\ file.name \in MappingFiles
          /\ \E i, j \in 1..Len(file.rows) :
                /\ i < j
                /\ file.rows[i] # file.rows[j]
                /\ KeyOf(file.name, RecordOf(file, i))
                       = KeyOf(file.name, RecordOf(file, j))
    /\ \E outcome \in ValidateLoaded(load_result.val) :
          IsPrimaryKeyNotUnique(outcome)

(***************************************************************************)
(* Claims about what validate changes                                      *)
(***************************************************************************)
\* The two datasets hold the same records, but for the pickup_type and the
\* drop_off_type of the records of stop_times.
SameButPickupAndDropOff(before, after) ==
    /\ DOMAIN after = DOMAIN before
    /\ \A table \in DOMAIN before \ {"stop_times"} :
           after[table] = before[table]
    /\ DOMAIN after.stop_times = DOMAIN before.stop_times
    /\ \A k \in DOMAIN before.stop_times :
           [after.stop_times[k] EXCEPT
               !.pickup_type = before.stop_times[k].pickup_type,
               !.drop_off_type = before.stop_times[k].drop_off_type]
           = before.stop_times[k]

\* C15: validate leaves every record of every table unchanged, except that
\* it may change the pickup_type and drop_off_type of records of
\* stop_times; no record is added or removed and no other field is
\* modified: every step of validate leaves the dataset so.
C15_OnlyPickupAndDropOffChange == [][SameButPickupAndDropOff(ds, ds')]_vars

\* validate has returned Ok and the dataset is none of those it is called
\* on: records of stop_times were changed.
C15_ReturnedWithChangedStopTimes ==
    /\ pc = "done"
    /\ result = OkUnit
    /\ ~IsDataset(ds)
    /\ ds \notin CalendarFamily

(***************************************************************************)
(* Claims about pathways                                                   *)
(***************************************************************************)
\* The pathway of this key is a bidirectional exit gate, no stop has a
\* parent_station, and the dataset passes validate once the pathway is made
\* one-directional: the pathway is the only violation.
OnlyViolationIsExitGate(d, variable, k) ==
    /\ d.pathways[k].pathway_mode = "ExitGate"
    /\ d.pathways[k].is_bidirectional
    /\ \A stop \in Values(d.stops) : is_none(stop.parent_station)
    /\ ValidateWithoutParents(
           [d EXCEPT !.pathways[k].is_bidirectional = FALSE], variable)
       = {OkUnit}

\* C16: for a dataset whose only violation is a pathway X that is an exit
\* gate and bidirectional, validate returns the dataset-validation error
\* inconsistent-value on is_bidirectional carrying X.
C16_BidirectionalExitGate ==
    \A k \in DOMAIN ds.pathways :
        (pc = "done" /\ OnlyViolationIsExitGate(ds, env, k))
        => result = DatasetValidationError("inconsistent-value",
                        "is_bidirectional", <<ds.pathways[k]>>)

(***************************************************************************)
(* Claims about the agencies                                               *)
(***************************************************************************)
\* Every agency has an agency_id, the agency_ids are pairwise distinct and
\* the agencies share one agency_timezone.
AgenciesAgree(agencies) ==
    /\ \A i \in 1..Len(agencies) : is_some(agencies[i].agency_id)
    /\ \A i, j \in 1..Len(agencies) :
           i # j => agencies[i].agency_id # agencies[j].agency_id
    /\ \A i \in 1..Len(agencies) :
           agencies[i].agency_timezone = agencies[1].agency_timezone

\* The first agency, in insertion order, whose timezone is not that of the
\* first agency.
FirstOfAnotherTimezone(agencies) ==
    agencies[CHOOSE i \in 1..Len(agencies) :
                 /\ agencies[i].agency_timezone # agencies[1].agency_timezone
                 /\ \A j \in 1..(i - 1) :
                        agencies[j].agency_timezone
                            = agencies[1].agency_timezone]

\* The outcome is a failure of the step on agencies: a dataset-validation
\* error that carries an agency.
IsAgencyFailure(outcome, d) ==
    /\ IsDatasetError(outcome)
    /\ Len(outcome.val.records) >= 1
    /\ outcome.val.records[1] \in Elems(d.agencies)

IsTimezoneMismatch(outcome, d) ==
    /\ IsAgencyFailure(outcome, d)
    /\ outcome.val.kind = "inconsistent-value"
    /\ outcome.val.field = "agency_timezone"

\* C17: once the row stage has passed, with more than one agency the step
\* on agencies succeeds if and only if every agency has an agency_id, the
\* agency_ids are pairwise distinct and the timezones are the same; a
\* timezone mismatch is reported as inconsistent-value on agency_timezone
\* carrying the first agency whose timezone differs from the first
\* agency's; with zero or one agency the step always succeeds.
C17_AgencyStep ==
    (pc = "done" /\ ~IsSchemaError(result)) =>
        /\ Len(ds.agencies) <= 1 => ~IsAgencyFailure(result, ds)
        /\ Len(ds.agencies) > 1 =>
              /\ ~IsAgencyFailure(result, ds) <=> AgenciesAgree(ds.agencies)
              /\ IsTimezoneMismatch(result, ds) =>
                    result.val.records
                        = <<FirstOfAnotherTimezone(ds.agencies)>>
              /\ (/\ \A i \in 1..Len(ds.agencies) :
                         is_some(ds.agencies[i].agency_id)
                  /\ \A i, j \in 1..Len(ds.agencies) :
                         i # j => ds.agencies[i].agency_id
                                      # ds.agencies[j].agency_id
                  /\ ~AgenciesAgree(ds.agencies))
                 => IsTimezoneMismatch(result, ds)

\* validate has reported the third of three agencies, the first whose
\* timezone is not the first agency's.
C17_ThirdAgencyOfAnotherTimezone ==
    /\ pc = "done"
    /\ Len(ds.agencies) = 3
    /\ IsTimezoneMismatch(result, ds)
    /\ result.val.records = <<ds.agencies[3]>>
    /\ ds.agencies[2].agency_timezone = ds.agencies[1].agency_timezone

(***************************************************************************)
(* Claims about translations                                               *)
(***************************************************************************)
\* The records of stop_times whose primary key is the pair of the
\* translation's record_id, a trip_id, and record_sub_id, a stop_sequence.
StopTimesTranslated(d, translation) ==
    { stop_time \in Values(d.stop_times) :
        /\ stop_time.trip_id = unwrap(translation.record_id)
        /\ stop_time.stop_sequence
               = ParseU32(unwrap(translation.record_sub_id)) }

\* C18: whenever validate returns Ok, every translation of stop_times that
\* carries a record_id and a record_sub_id identifies a single record of
\* stop_times, the one whose trip_id is the record_id and whose
\* stop_sequence is the record_sub_id.
C18_StopTimesTranslationResolves ==
    (pc = "done" /\ result = OkUnit) =>
        \A translation \in Elems(ds.translations) :
            (/\ translation.table_name = "StopTimes"
             /\ is_some(translation.record_id)
             /\ is_some(translation.record_sub_id))
            => Cardinality(StopTimesTranslated(ds, translation)) = 1

(***************************************************************************)
(* Claims about the parents of platforms                                   *)
(***************************************************************************)
\* A stop whose location_type is absent or stop-or-platform and which has a
\* parent_station.
IsPlatformWithParent(stop) ==
    /\ stop.location_type \in {None, Some("StopOrPlatform")}
    /\ is_some(stop.parent_station)

\* The stops the loop over stops has passed.
PassedStops == { ds.stops[k] : k \in DOMAIN ds.stops \ pending }

\* validate has failed on the parents of this stop: the error carries the
\* stop first and is on parent_station or on the location_type of the chain.
FailedOnParentsOf(stop) ==
    /\ pc = "done"
    /\ IsDatasetError(result)
    /\ result.val.field \in {"parent_station", "location_type"}
    /\ Len(result.val.records) >= 1
    /\ result.val.records[1] = stop

DirectParentIsStation(stops, stop) ==
    /\ unwrap(stop.parent_station) \in DOMAIN stops
    /\ stops[unwrap(stop.parent_station)].location_type = Some("Station")

\* C19 as stated: for a stop whose location_type is absent or
\* stop-or-platform and which has a parent_station, the step on stops
\* succeeds if and only if its parent chain reaches a station, whether the
\* station is the direct parent or is reached through other stops: a stop
\* the loop has passed has such a chain, and validate does not fail on the
\* parents of a stop that has one.
C19_PlatformChainReachesStation ==
    \A stop \in Values(ds.stops) :
        IsPlatformWithParent(stop) =>
            /\ (pc \in {"stops", "walk"} /\ stop \in PassedStops)
               => ReachesStation(ds.stops, unwrap(stop.parent_station),
                                 NumberOfStops - 1)
            /\ FailedOnParentsOf(stop)
               => ~ReachesStation(ds.stops, unwrap(stop.parent_station),
                                  NumberOfStops - 1)

\* C19, amended: for such a stop the step on stops succeeds if and only if
\* its parent_station is itself a station: a stop the loop has passed has a
\* station as its direct parent, and validate does not fail on the parents
\* of a stop whose direct parent is a station.
C19_PlatformParentIsStation ==
    \A stop \in Values(ds.stops) :
        IsPlatformWithParent(stop) =>
            /\ (pc \in {"stops", "walk"} /\ stop \in PassedStops)
               => DirectParentIsStation(ds.stops, stop)
            /\ FailedOnParentsOf(stop)
               => ~DirectParentIsStation(ds.stops, stop)

\* validate has rejected a platform whose parent is not a station although
\* the chain of the parent leads to one.
C19_ChainThroughNonStationRejected ==
    \E stop \in Values(ds.stops) :
        /\ IsPlatformWithParent(stop)
        /\ FailedOnParentsOf(stop)
        /\ ~DirectParentIsStation(ds.stops, stop)
        /\ ReachesStation(ds.stops, unwrap(stop.parent_station),
                          NumberOfStops - 1)

(***************************************************************************)
(* Claims about feed_lang                                                  *)
(***************************************************************************)
LanguagesOfTranslations(d) ==
    { translation.language : translation \in Elems(d.translations) }

IsFeedLangFailure(outcome) ==
    /\ IsDatasetError(outcome)
    /\ outcome.val.kind = "inconsistent-value"
    /\ outcome.val.field = "feed_lang"

\* C20: when feed_info is present and feed_lang is not mul, the step on
\* feed_info fails with inconsistent-value on feed_lang if and only if the
\* translations hold more than one language and none of them is feed_lang:
\* validate reports that failure only then, and does not return Ok then.
C20_FeedLangOfSingleLanguageFeed ==
    (/\ pc = "done"
     /\ is_some(ds.feed_info)
     /\ unwrap(ds.feed_info).feed_lang # "mul") =>
        LET languages == LanguagesOfTranslations(ds)
            none_matches ==
                /\ Cardinality(languages) > 1
                /\ unwrap(ds.feed_info).feed_lang \notin languages
        IN  /\ IsFeedLangFailure(result) => none_matches
            /\ result = OkUnit => ~none_matches

(***************************************************************************)
(* Claims about multilingual feeds                                         *)
(***************************************************************************)
AllLanguagesTranslateTheSame(d) ==
    \A l1, l2 \in LanguagesOfTranslations(d) :
        TranslationsByLanguage(d)[l1] = TranslationsByLanguage(d)[l2]

IsTranslationsInconsistent(outcome) ==
    /\ IsDatasetError(outcome)
    /\ outcome.val.kind = "inconsistent-value"
    /\ outcome.val.field = "translations"

ServiceIdsOfCalendarDates(d) ==
    { calendar_date.service_id : calendar_date \in Values(d.calendar_dates) }

\* C22: whenever validate returns Ok on a dataset whose calendar table is
\* empty, the service_id of every trip is the service_id of a calendar_dates
\* record, whatever the environment variable holds; so with both tables
\* empty the dataset passes only without trips.
C22_CalendarDatesCoverTrips ==
    (/\ pc = "done"
     /\ result = OkUnit
     /\ DOMAIN ds.calendar = {}) =>
        \A trip \in Values(ds.trips) :
            trip.service_id \in ServiceIdsOfCalendarDates(ds)

\* Ok with the variable set, both tables empty and no trips.
C22_OkWithoutCalendarsAndTrips ==
    /\ pc = "done"
    /\ result = OkUnit
    /\ is_some(env)
    /\ DOMAIN ds.calendar = {}
    /\ DOMAIN ds.calendar_dates = {}
    /\ DOMAIN ds.trips = {}

IsMissingCalendars(outcome) ==
    /\ IsDatasetError(outcome)
    /\ outcome.val.kind = "missing-value"
    /\ outcome.val.field = "calendar.txt and calendar_dates.txt"

\* Every check that comes before the one on calendar_dates passes.
PassesUntilCalendar(d) ==
    /\ ~SomeRecordFailsItsValidate(d)
    /\ \A stop \in Values(d.stops) :
          is_none(stop.parent_station) /\ StopAfterWalk(d, stop, {}) = OkUnit
    /\ \A k \in 1..4 : StagesInStepOrder(d, None)[k] = {OkUnit}

\* The values of the variable that are not truthy: unset, or one of the
\* texts false, 0 and no.
IsNotTruthy(variable) ==
    \/ is_none(variable)
    \/ is_some(variable) /\ unwrap(variable) \in {"false", "0", "no"}

\* C23: with calendar and calendar_dates both empty, validate skips the
\* missing-value failure on the two files exactly when the environment
\* variable holds a truthy literal: the failure is never reported when it
\* holds true, and when it is unset or holds false, 0 or no validate does
\* not return Ok and, the earlier checks passing, reports that failure.
C23_EscapeOnlyWhenTruthy ==
    (/\ pc = "done"
     /\ DOMAIN ds.calendar = {}
     /\ DOMAIN ds.calendar_dates = {}) =>
        /\ IsMissingCalendars(result) => env # Some("true")
        /\ IsNotTruthy(env) =>
              /\ result # OkUnit
              /\ PassesUntilCalendar(ds) => IsMissingCalendars(result)

(***************************************************************************)
(* Claims about the rows of stops and stop_times                           *)
(***************************************************************************)
IsMissingValueOf(outcome, fields) ==
    /\ IsSchemaError(outcome)
    /\ outcome.val.kind = "missing-value"
    /\ outcome.val.field \in fields

\* A stop of the default location type that lacks its name or coordinates.
IsIncompleteDefaultStop(stop) ==
    /\ is_none(stop.location_type)
    /\ (is_none(stop.stop_name) \/ is_none(stop.stop_coord))

\* C24: a stop whose location_type is absent is held to the rule of
\* location types 0, 1 and 2: if its stop_name or its coordinates are absent,
\* Stop::validate fails with missing-value, and validate does not return Ok
\* on a dataset with such a stop.
C24_DefaultLocationTypeNeedsNameAndCoordinates ==
    pc = "done" =>
        \A stop \in Values(ds.stops) :
            IsIncompleteDefaultStop(stop) =>
                /\ IsMissingValueOf(StopValidate(stop),
                                    {"stop_name", "stop_coord"})
                /\ result # OkUnit

\* The stop_times were all accepted by StopTime::validate: validate is past
\* its loop over them and has not returned an error of a record.
StopTimesAccepted ==
    /\ pc # "start"
    /\ ~(pc = "done" /\ IsSchemaError(result))

StopTimePostcondition(stop_time) ==
    /\ Cardinality({ location \in {"stop_id", "location_group_id",
                                   "location_id"} :
                         is_some(stop_time[location]) }) = 1
    /\ \/ is_none(stop_time.shape_dist_traveled)
       \/ f32_le(0, unwrap(stop_time.shape_dist_traveled))
    /\ has_window(stop_time) =>
          /\ is_none(stop_time.arrival_time)
          /\ is_none(stop_time.departure_time)
          /\ is_none(stop_time.continuous_pickup)
          /\ is_none(stop_time.continuous_drop_off)
          /\ stop_time.pickup_type \notin
                 {Some("RegularlyScheduled"), Some("MustCoordinateWithDriver")}
          /\ stop_time.drop_off_type # Some("RegularlyScheduled")
    /\ ~has_window(stop_time) =>
          /\ is_some(stop_time.pickup_type)
          /\ is_some(stop_time.drop_off_type)
          /\ stop_time.timepoint = Some("Exact") =>
                 /\ is_some(stop_time.arrival_time)
                 /\ is_some(stop_time.departure_time)

\* C25: a stop_time that StopTime::validate accepted has exactly one of
\* stop_id, location_group_id and location_id, a shape_dist_traveled that is
\* absent or at least 0, with a window no arrival_time, departure_time,
\* continuous_pickup or continuous_drop_off, a pickup_type that is neither
\* regularly-scheduled nor coordinate-with-driver and a drop_off_type that is
\* not regularly-scheduled, and without a window a pickup_type and a
\* drop_off_type and, when timepoint is exact, both times.
C25_AcceptedStopTimePostcondition ==
    StopTimesAccepted =>
        \A stop_time \in Values(ds.stop_times) :
            StopTimePostcondition(stop_time)

(***************************************************************************)
(* Claims about booking rules                                              *)
(***************************************************************************)
StartDayIsForbidden(booking_rule) ==
    /\ is_some(booking_rule.prior_notice_start_day)
    /\ \/ booking_rule.booking_type = "RealTime"
       \/ /\ booking_rule.booking_type = "SameDayWithNotice"
          /\ is_some(booking_rule.prior_notice_duration_max)

\* C26: BookingRule::validate rejects a rule that defines
\* prior_notice_start_day when booking_type is real-time, and also when
\* booking_type is same-day-with-notice and prior_notice_duration_max is
\* defined: the rule is not accepted, validate does not return Ok, and the
\* error reported on prior_notice_start_day is forbidden-value.
C26_StartDayForbidden ==
    pc = "done" =>
        \A booking_rule \in Values(ds.booking_rules) :
            StartDayIsForbidden(booking_rule) =>
                /\ IsSchemaError(BookingRuleValidate(booking_rule))
                /\ BookingRuleValidate(booking_rule).val.field
                       = "prior_notice_start_day"
                   => BookingRuleValidate(booking_rule).val.kind
                          = "forbidden-value"
                /\ result # OkUnit

(***************************************************************************)
(* Claims about the iteration order of hash maps and hash sets             *)
(***************************************************************************)
\* What a caller sees of an outcome: Ok, or the kind and field of the error.
Verdict(outcome) ==
    IF outcome.tag = "Err"
    THEN <<"Err", outcome.val.arm, outcome.val.kind, outcome.val.field>>
    ELSE <<outcome.tag>>

SameVerdict(outcomes) ==
    \A a, b \in outcomes : Verdict(a) = Verdict(b)

\* The outcomes validate may return from the current state on, one for each
\* order in which its maps and sets may be iterated: all of validate when no
\* stop has a parent_station, and the steps after the stops once the loop
\* over stops is over.
OutcomesFromHere ==
    IF pc = "start" /\ \A stop \in Values(ds.stops) :
                           is_none(stop.parent_station)
    THEN ValidateWithoutParents(ds, env)
    ELSE IF pc = "stops" /\ pending = {}
    THEN StagesAfterStops(ds, env)
    ELSE {}

\* C27: for one dataset validate returns the same outcome, Ok or an error of
\* the same kind on the same field, whatever the iteration order of the hash
\* maps and hash sets it builds or reads, the set of translation languages
\* of the feed_lang check included.
C27_VerdictIndependentOfIterationOrder == SameVerdict(OutcomesFromHere)

(***************************************************************************)
(* Claims about what validate leaves behind                                *)
(***************************************************************************)
\* The step is the return of validate with the error of a stop_times record.
StopTimeRejected ==
    /\ pc = "start"
    /\ pc' = "done"
    /\ IsSchemaError(result')
    /\ "stop_sequence" \in DOMAIN result'.val.records[1]

\* The rejected record is in the table as it was before the call, and the
\* error carries it so.
RejectedRecordUntouched ==
    LET snapshot == result'.val.records[1]
        key == stop_time_key(snapshot)
    IN  /\ key \in DOMAIN ds.stop_times
        /\ ds'.stop_times[key] = ds.stop_times[key]
        /\ snapshot = ds.stop_times[key]

\* C28: when StopTime::validate returns an error, every field of the record,
\* pickup_type and drop_off_type included, has the value it had before the
\* call, and the record the error carries equals the original record.
C28_NoPartialUpdateOnFailure ==
    [][StopTimeRejected => RejectedRecordUntouched]_vars

\* C29: if validate returns Ok on a dataset, calling validate again on it
\* returns Ok and changes no field: the clearing and defaulting of
\* pickup_type and drop_off_type is at its fixed point after the first call.
C29_SecondCallIsOkAndChangesNothing ==
    [][pc' = "again" => (result' = OkUnit /\ ds' = ds)]_vars

(***************************************************************************)
(* Claims about the queries                                                *)
(***************************************************************************)
\* The parent station of a stop of the dataset: the stop whose stop_id is
\* its parent_station, None when it has none.
ParentStationOf(d, stop_id) ==
    LET parent_station == d.stops[stop_id].parent_station IN
    IF is_some(parent_station) /\ unwrap(parent_station) \in DOMAIN d.stops
    THEN Some(d.stops[unwrap(parent_station)])
    ELSE None

\* C30: for a stop id s of the dataset, stop_get_parent_station(s) returns
\* the stop whose stop_id equals the parent_station of s, and None when s has
\* no parent_station.
C30_ParentStationQuery ==
    q_out.op = "stop_get_parent_station" =>
        q_out.value = ParentStationOf(ds, q_in.stop_id)

====
